---- MODULE Spec2Model ----
(***************************************************************************)
(* Model of the routing_model membership / relocation state machines.     *)
(* A MemberState processes one event at a time through try_next; every    *)
(* effect goes through Action, which owns the node table and the journal  *)
(* (our_events).  The harness clears the journal (remove_processed_state) *)
(* before it injects the next event, so our_events always holds the       *)
(* effects of the last processed event.                                   *)
(*                                                                         *)
(* Option<T> is modelled as a sequence of length at most one: None is     *)
(* <<>> and Some(x) is <<x>>.  A panic (assert!, unwrap!, expect) is      *)
(* modelled by the abort field, which names the failed check.             *)
(***************************************************************************)
EXTENDS Integers, Sequences, FiniteSets, TLC

VARIABLES action, start_resource_proof, start_relocate_src,
          start_merge_split_and_change_elders, result, abort,
          ticket, pending_votes, seen_votes, admitted, approved, throttle,
          merge_voted,
          proof_seed, proof_source, proof_calls,
          joining, joining_result, replica, relay, elder_timer

\* a MemberState, its last TryResult and the history kept about its run
member_vars == <<action, start_resource_proof, start_relocate_src,
                 start_merge_split_and_change_elders, result, abort,
                 ticket, pending_votes, seen_votes, admitted, approved, throttle,
                 merge_voted>>

\* a ProofSource, the value it was made with and the calls made on it
proof_vars == <<proof_seed, proof_source, proof_calls>>

\* a JoiningState and its last TryResult
joining_vars == <<joining, joining_result>>

\* a second copy of the state under test, fed the same events
replay_vars == <<replica>>

\* the RPCs in flight between a joining node and the member that admits it
relay_vars == <<relay, elder_timer>>

vars == <<member_vars, proof_vars, joining_vars, replay_vars, relay_vars>>

None == <<>>
Some(x) == <<x>>

\* ------------------------------------------------------------------
\* Bounds of the model
\* ------------------------------------------------------------------
\* number of candidate admissions (advances of next_target_interval)
MaxAdmissions == 1
\* number of candidate admissions where one candidate is admitted again
MaxReadmissions == 2
\* number of completed elder changes (advances of our_section.version)
MaxVersion == 1
\* number of seed rows the harness lets be purged
MaxPurged == 1
\* largest counter a ProofSource is made with
MaxProofCounter == 3
\* number of calls made on one ProofSource
MaxProofCalls == 5

\* ------------------------------------------------------------------
\* Program constants
\* ------------------------------------------------------------------
ELDER_SIZE == 3
RESEND_COUNT == 3

\* ------------------------------------------------------------------
\* Values used by the scenarios (scenario_tests.rs)
\* ------------------------------------------------------------------
Attributes(age, name) == [age |-> age, name |-> name]
SectionInfo(section, version) == [section |-> section, version |-> version]

TARGET_INTERVAL_1 == 1234
OUR_SECTION == 0
OTHER_SECTION_1 == 1
OTHER_SECTION_2 == 2
DST_SECTION_200 == 200
OUR_INITIAL_SECTION_INFO == SectionInfo(OUR_SECTION, 0)
OTHER_SECTION_INFO == SectionInfo(OTHER_SECTION_1, 0)
REMOTE_OTHER_SECTION_INFO == SectionInfo(OTHER_SECTION_2, 0)
DST_SECTION_INFO_200 == SectionInfo(DST_SECTION_200, 0)

CANDIDATE_1_OLD == Attributes(9, 1001)
CANDIDATE_1 == Attributes(10, 1)
CANDIDATE_2_OLD == Attributes(9, 1002)
CANDIDATE_2 == Attributes(10, 2)
NODE_ELDER_109 == Attributes(9, 109)
NODE_ELDER_110 == Attributes(10, 110)
NODE_ELDER_130 == Attributes(30, 130)
NODE_ELDER_131 == Attributes(31, 131)
NODE_ELDER_132 == Attributes(32, 132)
YOUNG_ADULT_205 == Attributes(5, 205)
OUR_NODE == NODE_ELDER_132

\* ------------------------------------------------------------------
\* utilities.rs : State, NodeState, events
\* ------------------------------------------------------------------
StateOnline == [tag |-> "Online", info |-> None]
StateRelocatingAgeIncrease == [tag |-> "RelocatingAgeIncrease", info |-> None]
StateRelocatingHop == [tag |-> "RelocatingHop", info |-> None]
StateRelocatingBackOnline == [tag |-> "RelocatingBackOnline", info |-> None]
StateRelocated(info) == [tag |-> "Relocated", info |-> Some(info)]
StateWaitingCandidateInfo(info) == [tag |-> "WaitingCandidateInfo", info |-> Some(info)]
StateWaitingProofing == [tag |-> "WaitingProofing", info |-> None]
StateOffline == [tag |-> "Offline", info |-> None]

\* position of the variant in the enum declaration (derive(Ord))
StateIndex(state) ==
    CASE state.tag = "Online" -> 0
      [] state.tag = "RelocatingAgeIncrease" -> 1
      [] state.tag = "RelocatingHop" -> 2
      [] state.tag = "RelocatingBackOnline" -> 3
      [] state.tag = "Relocated" -> 4
      [] state.tag = "WaitingCandidateInfo" -> 5
      [] state.tag = "WaitingProofing" -> 6
      [] state.tag = "Offline" -> 7

is_relocating(state) ==
    \/ state = StateRelocatingAgeIncrease
    \/ state = StateRelocatingHop
    \/ state = StateRelocatingBackOnline

waiting_candidate_info(state) ==
    IF state.tag = "WaitingCandidateInfo" THEN state.info ELSE None

is_not_yet_full_node(state) ==
    state.tag \in {"WaitingCandidateInfo", "WaitingProofing", "RelocatingHop"}

NodeState(node, work_units_done, is_elder, state) ==
    [node |-> node, work_units_done |-> work_units_done,
     is_elder |-> is_elder, state |-> state]

NodeState_default(node) == NodeState(node, 0, FALSE, StateOnline)
NodeState_default_elder(node) == NodeState(node, 0, TRUE, StateOnline)

RelocatedInfo(candidate, expected_age, target_interval_centre, section_info) ==
    [candidate |-> candidate, expected_age |-> expected_age,
     target_interval_centre |-> target_interval_centre,
     section_info |-> section_info]

increment_by_one(age) == age + 1

CandidateInfo(old_public_id, new_public_id, destination, waiting_candidate_name, valid) ==
    [old_public_id |-> old_public_id, new_public_id |-> new_public_id,
     destination |-> destination,
     waiting_candidate_name |-> waiting_candidate_name, valid |-> valid]

\* An event is a record whose kind is compared before its payload.
Variant(kind, payload) == [kind |-> kind, payload |-> payload]
Rpc(kind, payload) == Variant("Rpc", Variant(kind, payload))
ParsecVote(kind, payload) == Variant(kind, payload)
ParsecConsensus(vote) == Variant("ParsecConsensus", vote)
LocalEvent(kind, payload) == Variant("LocalEvent", Variant(kind, payload))
TestEvent(kind, payload) == Variant("TestEvent", Variant(kind, payload))
NodeChange(kind, payload) == Variant("NodeChange", Variant(kind, payload))
ActionTriggered(kind, payload) == Variant("ActionTriggered", Variant(kind, payload))
Scheduled(local) == ActionTriggered("Scheduled", Variant(local, None))

\* ParsecVote::candidate()
vote_candidate(vote) ==
    CASE vote.kind \in {"ExpectCandidate", "PurgeCandidate", "RefuseCandidate"} ->
            Some(vote.payload)
      [] vote.kind = "Online" -> Some(vote.payload.old)
      [] vote.kind = "RelocateResponse" -> Some(vote.payload.candidate)
      [] OTHER -> None

Handled(m) == [m |-> m, result |-> "Handled"]
Unhandled(m) == [m |-> m, result |-> "Unhandled"]

\* ------------------------------------------------------------------
\* Orderings (derive(Ord) is lexicographic over the fields in order)
\* ------------------------------------------------------------------
RECURSIVE LexCmp(_, _)
LexCmp(a, b) ==
    IF a = <<>> THEN 0
    ELSE IF Head(a) < Head(b) THEN -1
    ELSE IF Head(a) > Head(b) THEN 1
    ELSE LexCmp(Tail(a), Tail(b))

InfoKey(info) ==
    <<info.candidate.age, info.candidate.name, info.expected_age,
      info.target_interval_centre, info.section_info.section,
      info.section_info.version>>

\* State::cmp
StateCmp(left, right) ==
    IF StateIndex(left) < StateIndex(right) THEN -1
    ELSE IF StateIndex(left) > StateIndex(right) THEN 1
    ELSE IF left.info = None THEN 0
    ELSE LexCmp(InfoKey(left.info[1]), InfoKey(right.info[1]))

IntCmp(a, b) == IF a < b THEN -1 ELSE IF a > b THEN 1 ELSE 0

\* Ordering::then
Then(first, second) == IF first # 0 THEN first ELSE second

\* Ordering::reverse
Reverse(ord) == 0 - ord

\* ------------------------------------------------------------------
\* actions.rs : InnerAction
\* ------------------------------------------------------------------
Insert(map, key, value) ==
    [k \in DOMAIN map \cup {key} |-> IF k = key THEN value ELSE map[k]]

Remove(map, key) == [k \in DOMAIN map \ {key} |-> map[k]]

MinOf(S) == CHOOSE x \in S : \A y \in S : x <= y

\* a failed assert! / unwrap! : the process aborts, naming the check
Panic(m, check) == IF m.abort # "none" THEN m ELSE [m EXCEPT !.abort = check]

\* our_events.push(event)
Push(m, event) ==
    IF m.abort # "none" THEN m
    ELSE [m EXCEPT !.action.our_events = Append(@, event)]

new_with_our_attributes(name) ==
    [our_attributes |-> name,
     our_section |-> SectionInfo(0, 0),
     our_current_nodes |-> [n \in {} |-> 0],
     our_events |-> <<>>,
     shortest_prefix |-> None,
     next_target_interval |-> 0,
     merge_infos |-> None,
     churn_needed |-> None]

RECURSIVE extend_current_nodes(_, _)
extend_current_nodes(inner, nodes) ==
    IF nodes = <<>> THEN inner
    ELSE extend_current_nodes(
            [inner EXCEPT !.our_current_nodes =
                Insert(@, Head(nodes).node.name, Head(nodes))],
            Tail(nodes))

extend_current_nodes_with(inner, value, nodes) ==
    extend_current_nodes(inner,
        [i \in 1..Len(nodes) |-> [value EXCEPT !.node = nodes[i]]])

with_next_target_interval(inner, target) ==
    [inner EXCEPT !.next_target_interval = target]

add_node(m, node_state) ==
    LET m1 == Push(m, NodeChange("AddWithState",
                    [node |-> node_state.node, state |-> node_state.state]))
    IN  IF m1.abort # "none" THEN m1
        ELSE IF node_state.node.name \in DOMAIN m1.action.our_current_nodes
        THEN Panic(m1, "add_node")
        ELSE [m1 EXCEPT !.action.our_current_nodes =
                Insert(@, node_state.node.name, node_state)]

remove_node(m, name) ==
    LET m1 == Push(m, NodeChange("Remove", name))
    IN  IF m1.abort # "none" THEN m1
        ELSE IF name \notin DOMAIN m1.action.our_current_nodes
        THEN Panic(m1, "remove_node")
        ELSE [m1 EXCEPT !.action.our_current_nodes = Remove(@, name)]

replace_node(m, node_name, node_state) ==
    LET m1 == Push(m, NodeChange("ReplaceWith",
                    [name |-> node_name, node |-> node_state.node,
                     state |-> node_state.state]))
        removed == node_name \in DOMAIN m1.action.our_current_nodes
        rest == Remove(m1.action.our_current_nodes, node_name)
        inserted_is_none == node_state.node.name \notin DOMAIN rest
    IN  IF m1.abort # "none" THEN m1
        ELSE IF ~(removed /\ inserted_is_none)
        THEN Panic(m1, "replace_node")
        ELSE [m1 EXCEPT !.action.our_current_nodes =
                Insert(rest, node_state.node.name, node_state)]

set_node_state(m, name, state) ==
    IF m.abort # "none" THEN m
    ELSE IF name \notin DOMAIN m.action.our_current_nodes
    THEN Panic(m, "set_node_state")
    ELSE Push([m EXCEPT !.action.our_current_nodes[name].state = state],
              NodeChange("State",
                [node |-> m.action.our_current_nodes[name].node, state |-> state]))

set_elder_state(m, name, value) ==
    IF m.abort # "none" THEN m
    ELSE IF name \notin DOMAIN m.action.our_current_nodes
    THEN Panic(m, "set_elder_state")
    ELSE Push([m EXCEPT !.action.our_current_nodes[name].is_elder = value],
              NodeChange("Elder",
                [node |-> m.action.our_current_nodes[name].node, value |-> value]))

set_section_info(m, section) ==
    IF m.abort # "none" THEN m
    ELSE Push([m EXCEPT !.action.our_section = section],
              ActionTriggered("OurSectionChanged", section))

inner_store_merge_infos(m, merge_info) ==
    IF m.abort # "none" THEN m
    ELSE Push([m EXCEPT !.action.merge_infos = Some(merge_info)],
              ActionTriggered("MergeInfoStored", merge_info))

inner_complete_merge(m) == Push(m, ActionTriggered("CompleteMerge", None))

inner_complete_split(m) == Push(m, ActionTriggered("CompleteSplit", None))

\* ------------------------------------------------------------------
\* actions.rs : Action
\* ------------------------------------------------------------------
remove_processed_state(m) == [m EXCEPT !.action.our_events = <<>>]

process_test_events(m, event) ==
    CASE event.kind = "SetChurnNeeded" ->
            [m EXCEPT !.action.churn_needed = Some(event.payload)]
      [] event.kind = "SetShortestPrefix" ->
            [m EXCEPT !.action.shortest_prefix = event.payload]
      [] event.kind = "SetWorkUnitEnoughToRelocate" ->
            IF event.payload.name \in DOMAIN m.action.our_current_nodes
            THEN [m EXCEPT !.action.our_current_nodes[event.payload.name].work_units_done =
                    m.action.our_current_nodes[event.payload.name].node.age]
            ELSE m
      [] OTHER -> m

vote_parsec(m, vote) == Push(m, ParsecConsensus(vote))

send_rpc(m, rpc) == Push(m, rpc)

action_triggered(m, event) == Push(m, event)

schedule_event(m, local) == action_triggered(m, Scheduled(local))

our_section(m) == m.action.our_section

our_name(m) == m.action.our_attributes.name

send_relocate_response_rpc(m, info) == send_rpc(m, Rpc("RelocateResponse", info))

\* add_node_waiting_candidate_info handing out the target without advancing it
add_node_waiting_candidate_info_same_target(m, candidate) ==
    LET info == RelocatedInfo(candidate, increment_by_one(candidate.age),
                              m.action.next_target_interval, m.action.our_section)
        state == NodeState(Attributes(info.expected_age, info.target_interval_centre),
                           0, FALSE, StateWaitingCandidateInfo(info))
    IN  [m |-> add_node(m, state), info |-> info]

\* add_node_waiting_candidate_info building the ticket after the advance
add_node_waiting_candidate_info_next_target(m, candidate) ==
    LET m1 == [m EXCEPT !.action.next_target_interval = @ + 1]
        info == RelocatedInfo(candidate, increment_by_one(candidate.age),
                              m1.action.next_target_interval, m1.action.our_section)
        state == NodeState(Attributes(info.expected_age, info.target_interval_centre),
                           0, FALSE, StateWaitingCandidateInfo(info))
    IN  [m |-> add_node(m1, state), info |-> info]

add_node_waiting_candidate_info(m, candidate) ==
    LET target_interval_centre == m.action.next_target_interval
        m1 == [m EXCEPT !.action.next_target_interval = @ + 1]
        info == RelocatedInfo(candidate, increment_by_one(candidate.age),
                              target_interval_centre, m1.action.our_section)
        state == NodeState(Attributes(info.expected_age, info.target_interval_centre),
                           0, FALSE, StateWaitingCandidateInfo(info))
    IN  [m |-> add_node(m1, state), info |-> info]

\* set_candidate_online_state that leaves the waiting row in the table
set_candidate_online_state_keep_waiting(m, candidate_name, new_public_id) == m

set_candidate_online_state(m, candidate_name, new_public_id) ==
    replace_node(m, candidate_name, NodeState(new_public_id, 0, FALSE, StateOnline))

set_node_offline_state(m, node) == set_node_state(m, node.name, StateOffline)

set_node_back_online_state(m, node) ==
    set_node_state(m, node.name, StateRelocatingBackOnline)

set_candidate_relocating_state(m, candidate) ==
    set_node_state(m, candidate.name, StateRelocatingAgeIncrease)

set_candidate_relocated_state(m, info) ==
    set_node_state(m, info.candidate.name, StateRelocated(info))

purge_node_info(m, name) == remove_node(m, name)

check_shortest_prefix(m) == m.action.shortest_prefix

\* the comparator without the reverse() on the ages
elder_cmp_youngest_first(left, right) ==
    Then(StateCmp(left.state, right.state),
         Then(IntCmp(left.node.age, right.node.age),
              IntCmp(left.node.name, right.node.name)))

\* the comparator handed to sorted_by in check_elder
elder_cmp(left, right) ==
    Then(StateCmp(left.state, right.state),
         Then(Reverse(IntCmp(left.node.age, right.node.age)),
              IntCmp(left.node.name, right.node.name)))

\* Itertools::sorted_by over a set of rows with pairwise distinct names
RECURSIVE sorted_by_elder_cmp(_)
sorted_by_elder_cmp(rows) ==
    IF rows = {} THEN <<>>
    ELSE LET first == CHOOSE r \in rows :
                        \A q \in rows \ {r} : elder_cmp(r, q) < 0
         IN  <<first>> \o sorted_by_elder_cmp(rows \ {first})

Min(a, b) == IF a < b THEN a ELSE b

\* the elements of seq that satisfy Keep, in order
RECURSIVE FilterElder(_, _)
FilterElder(seq, flag) ==
    IF seq = <<>> THEN <<>>
    ELSE IF Head(seq).is_elder = flag
         THEN <<Head(seq)>> \o FilterElder(Tail(seq), flag)
         ELSE FilterElder(Tail(seq), flag)

elder_size_of(len) == Min(ELDER_SIZE, len)

\* check_elder: the changes, additions chained before removals
elder_changes(new_elders, ex_elders) ==
    [i \in 1..Len(new_elders) |-> [node |-> new_elders[i].node, new_is_elder |-> TRUE]]
    \o [i \in 1..Len(ex_elders) |-> [node |-> ex_elders[i].node, new_is_elder |-> FALSE]]

\* check_elder: None when nothing changes, else the change under the next version
change_elder_of(changes, section) ==
    IF changes = <<>> THEN None
    ELSE Some([changes |-> changes,
               new_section |-> SectionInfo(section.section, section.version + 1)])

\* check_elder: split_off(elder_size), then the two filters
check_elder_sorted(sorted_values, elder_size, section) ==
    change_elder_of(
        elder_changes(
            FilterElder(SubSeq(sorted_values, 1, elder_size), FALSE),
            FilterElder(SubSeq(sorted_values, elder_size + 1, Len(sorted_values)), TRUE)),
        section)

\* check_elder: the elder size from the number of rows
check_elder_values(sorted_values, section) ==
    check_elder_sorted(sorted_values, elder_size_of(Len(sorted_values)), section)

check_elder(m) ==
    check_elder_values(
        sorted_by_elder_cmp({m.action.our_current_nodes[n] :
                                n \in DOMAIN m.action.our_current_nodes}),
        m.action.our_section)

get_elder_change_votes(change_elder) ==
    [i \in 1..Len(change_elder.changes) |->
        IF change_elder.changes[i].new_is_elder
        THEN ParsecVote("AddElderNode", change_elder.changes[i].node)
        ELSE ParsecVote("RemoveElderNode", change_elder.changes[i].node)]
    \o <<ParsecVote("NewSectionInfo", change_elder.new_section)>>

RECURSIVE apply_elder_changes(_, _)
apply_elder_changes(m, changes) ==
    IF changes = <<>> THEN m
    ELSE apply_elder_changes(
            set_elder_state(m, Head(changes).node.name, Head(changes).new_is_elder),
            Tail(changes))

\* the changes that make an elder, in order
RECURSIVE additions_of(_)
additions_of(changes) ==
    IF changes = <<>> THEN <<>>
    ELSE IF Head(changes).new_is_elder
         THEN <<Head(changes)>> \o additions_of(Tail(changes))
         ELSE additions_of(Tail(changes))

\* mark_elder_change that leaves the former elders flagged
mark_elder_change_additions_only(m, change_elder) ==
    set_section_info(apply_elder_changes(m, additions_of(change_elder.changes)),
                     change_elder.new_section)

\* mark_elder_change that leaves our_section as it is
mark_elder_change_keep_section(m, change_elder) ==
    apply_elder_changes(m, change_elder.changes)

mark_elder_change(m, change_elder) ==
    set_section_info(apply_elder_changes(m, change_elder.changes),
                     change_elder.new_section)

get_section_split_votes(m) ==
    [name_offset \in 1..2 |->
        ParsecVote("NewSectionInfo",
                   SectionInfo(our_section(m).section + name_offset, 0))]

RowNames(m) == DOMAIN m.action.our_current_nodes
Row(m, name) == m.action.our_current_nodes[name]

\* get_node_to_relocate that takes a row in any state
get_node_to_relocate_any_state(m) ==
    LET found == {n \in RowNames(m) :
                    Row(m, n).work_units_done >= Row(m, n).node.age}
    IN  IF found = {} THEN None ELSE Some(Row(m, MinOf(found)).node)

get_node_to_relocate(m) ==
    LET found == {n \in RowNames(m) :
                    /\ Row(m, n).state = StateOnline
                    /\ Row(m, n).work_units_done >= Row(m, n).node.age}
    IN  IF found = {} THEN None ELSE Some(Row(m, MinOf(found)).node)

has_relocating_node(m) ==
    \E n \in RowNames(m) : Row(m, n).state = StateRelocatingAgeIncrease

Bool(b) == IF b THEN 1 ELSE 0

relocating_key(row) ==
    <<Bool(row.state = StateRelocatingAgeIncrease),
      Bool(row.state = StateRelocatingHop),
      Bool(row.state = StateRelocatingBackOnline),
      row.node.age, row.node.name>>

\* get_best_relocating_node_and_target that does not leave the elders out
get_best_relocating_node_and_target_with_elders(m, already_relocating) ==
    LET found == {n \in RowNames(m) :
                    /\ Row(m, n).node \notin DOMAIN already_relocating
                    /\ is_relocating(Row(m, n).state)}
        best == CHOOSE n \in found : \A q \in found :
                    LexCmp(relocating_key(Row(m, q)), relocating_key(Row(m, n))) <= 0
    IN  IF found = {} THEN None ELSE Some(Row(m, best).node)

\* get_best_relocating_node_and_target that ranks by age and name only
get_best_relocating_node_and_target_by_age(m, already_relocating) ==
    LET found == {n \in RowNames(m) :
                    /\ Row(m, n).node \notin DOMAIN already_relocating
                    /\ is_relocating(Row(m, n).state)
                    /\ ~Row(m, n).is_elder}
        best == CHOOSE n \in found : \A q \in found :
                    LexCmp(<<Row(m, q).node.age, q>>, <<Row(m, n).node.age, n>>) <= 0
    IN  IF found = {} THEN None ELSE Some(Row(m, best).node)

get_best_relocating_node_and_target(m, already_relocating) ==
    LET found == {n \in RowNames(m) :
                    /\ Row(m, n).node \notin DOMAIN already_relocating
                    /\ is_relocating(Row(m, n).state)
                    /\ ~Row(m, n).is_elder}
        best == CHOOSE n \in found : \A q \in found :
                    LexCmp(relocating_key(Row(m, q)), relocating_key(Row(m, n))) <= 0
    IN  IF found = {} THEN None ELSE Some(Row(m, best).node)

is_our_relocating_node(m, candidate) ==
    /\ candidate.name \in RowNames(m)
    /\ is_relocating(Row(m, candidate.name).state)

get_waiting_candidate_info(m, candidate) ==
    LET found == {n \in RowNames(m) :
                    /\ Row(m, n).state.tag = "WaitingCandidateInfo"
                    /\ Row(m, n).state.info[1].candidate = candidate}
    IN  IF found = {} THEN None ELSE Row(m, MinOf(found)).state.info

count_waiting_proofing_or_hop(m) ==
    Cardinality({n \in RowNames(m) : is_not_yet_full_node(Row(m, n).state)})

resource_proof_candidate(m) ==
    LET found == {n \in RowNames(m) : waiting_candidate_info(Row(m, n).state) # None}
        name == MinOf(found)
    IN  IF found = {} THEN None
        ELSE Some([name |-> name,
                   candidate |-> waiting_candidate_info(Row(m, name).state)[1].candidate])

\* is_valid_waited_info that does not look at the valid flag
is_valid_waited_info_any_flag(m, info) ==
    /\ info.waiting_candidate_name \in RowNames(m)
    /\ waiting_candidate_info(Row(m, info.waiting_candidate_name).state) # None

is_valid_waited_info(m, info) ==
    IF ~info.valid THEN FALSE
    ELSE /\ info.waiting_candidate_name \in RowNames(m)
         /\ waiting_candidate_info(Row(m, info.waiting_candidate_name).state) # None

send_node_approval_rpc(m, candidate) ==
    send_rpc(m, Rpc("NodeApproval",
                    [candidate |-> candidate, info |-> m.action.our_section]))

send_candidate_proof_request(m, candidate) ==
    send_rpc(m, Rpc("ResourceProof",
                    [candidate |-> candidate, source |-> our_name(m),
                     proof |-> our_name(m)]))

send_candidate_proof_receipt(m, candidate) ==
    send_rpc(m, Rpc("ResourceProofReceipt",
                    [candidate |-> candidate, source |-> our_name(m)]))

send_merge_rpc(m) == send_rpc(m, Rpc("Merge", our_section(m)))

increment_nodes_work_units(m) ==
    action_triggered(m, ActionTriggered("WorkUnitIncremented", None))

store_merge_infos(m, merge_info) == inner_store_merge_infos(m, merge_info)

has_merge_infos(m) == m.action.merge_infos # None

merge_needed(m) == m.action.churn_needed = Some("Merge")

split_needed(m) == m.action.churn_needed = Some("Split")

complete_merge(m) == inner_complete_merge(m)

complete_split(m) == inner_complete_split(m)

Abs(x) == IF x < 0 THEN 0 - x ELSE x

has_sibling_merge_info(m) ==
    IF m.action.merge_infos = None THEN FALSE
    ELSE Abs(our_section(m).section - m.action.merge_infos[1].section) = 1

\* takes the stored info (merge_infos becomes None) and names the new section
merge_sibling_info_to_new_section(m) ==
    IF m.action.merge_infos = None
    THEN [m |-> Panic(m, "merge_sibling_info_to_new_section"),
          new_section |-> SectionInfo(0, 0)]
    ELSE [m |-> [m EXCEPT !.action.merge_infos = None],
          new_section |-> SectionInfo(our_section(m).section
                                      + m.action.merge_infos[1].section + 1, 0)]

\* ------------------------------------------------------------------
\* flows_dst.rs : RespondToRelocateRequests
\* ------------------------------------------------------------------
add_node_and_send_relocate_response_rpc(m, candidate) ==
    LET added == add_node_waiting_candidate_info(m, candidate)
    IN  send_relocate_response_rpc(added.m, added.info)

resend_relocate_response_rpc(m, relocated_info) ==
    send_relocate_response_rpc(m, relocated_info)

send_refuse_candidate_rpc(m, candidate) ==
    send_rpc(m, Rpc("RefuseCandidate", candidate))

vote_parsec_expect_candidate(m, candidate) ==
    vote_parsec(m, ParsecVote("ExpectCandidate", candidate))

\* consensused_expect_candidate admitting while one candidate is still joining
consensused_expect_candidate_while_busy(m, candidate) ==
    LET info == get_waiting_candidate_info(m, candidate)
        count == count_waiting_proofing_or_hop(m)
    IN  IF info # None THEN resend_relocate_response_rpc(m, info[1])
        ELSE IF count <= 1 THEN add_node_and_send_relocate_response_rpc(m, candidate)
        ELSE send_refuse_candidate_rpc(m, candidate)

consensused_expect_candidate(m, candidate) ==
    LET info == get_waiting_candidate_info(m, candidate)
        count == count_waiting_proofing_or_hop(m)
    IN  IF info # None THEN resend_relocate_response_rpc(m, info[1])
        ELSE IF count = 0 THEN add_node_and_send_relocate_response_rpc(m, candidate)
        ELSE send_refuse_candidate_rpc(m, candidate)

RespondToRelocateRequests_try_next(m, event) ==
    CASE event.kind = "Rpc" /\ event.payload.kind = "ExpectCandidate" ->
            Handled(vote_parsec_expect_candidate(m, event.payload.payload))
      [] event.kind = "ParsecConsensus" /\ event.payload.kind = "ExpectCandidate" ->
            Handled(consensused_expect_candidate(m, event.payload.payload))
      [] OTHER -> Unhandled(m)

\* ------------------------------------------------------------------
\* flows_dst.rs : StartResourceProof over state.rs StartResourceProofState
\* ------------------------------------------------------------------
has_candidate(m) == m.start_resource_proof.candidate # None

\* unwrap!(candidate): only evaluated where has_candidate holds
candidate_of(m) == m.start_resource_proof.candidate[1]

finish_resource_proof(m) ==
    IF m.abort # "none" THEN m
    ELSE schedule_event(
            [m EXCEPT !.start_resource_proof =
                [candidate_info |-> None, candidate |-> None, voted_online |-> FALSE]],
            "CheckResourceProofTimeout")

set_resource_proof_candidate(m) ==
    [m EXCEPT !.start_resource_proof.candidate = resource_proof_candidate(m)]

check_request_resource_proof(m) ==
    IF has_candidate(m) THEN schedule_event(m, "TimeoutAccept")
    ELSE finish_resource_proof(m)

make_node_online(m, new_public_id) ==
    finish_resource_proof(
        send_node_approval_rpc(
            set_candidate_online_state(m, candidate_of(m).name, new_public_id),
            new_public_id))

StartResourceProof_purge_node_info(m) ==
    finish_resource_proof(purge_node_info(m, candidate_of(m).name))

vote_parsec_purge_candidate(m) ==
    IF ~has_candidate(m) THEN Panic(m, "StartResourceProof::candidate")
    ELSE vote_parsec(m, ParsecVote("PurgeCandidate", candidate_of(m).candidate))

vote_parsec_check_resource_proof(m) ==
    vote_parsec(m, ParsecVote("CheckResourceProof", None))

rpc_info(m, info) ==
    IF /\ has_candidate(m)
       /\ candidate_of(m).candidate = info.old_public_id
       /\ is_valid_waited_info(m, info)
    THEN send_candidate_proof_request(
            [m EXCEPT !.start_resource_proof.candidate_info = Some(info)],
            info.new_public_id)
    ELSE m

\* rpc_proof that accepts a proof whether or not Online was voted already
rpc_proof_vote_again(m, candidate, proof) ==
    LET from_candidate ==
            /\ has_candidate(m)
            /\ m.start_resource_proof.candidate_info # None
            /\ candidate = m.start_resource_proof.candidate_info[1].new_public_id
        new_public_id == m.start_resource_proof.candidate_info[1].new_public_id
    IN  IF from_candidate /\ proof \in {"ValidPart", "ValidEnd"}
        THEN send_candidate_proof_receipt(
                IF proof = "ValidEnd"
                THEN vote_parsec(
                        [m EXCEPT !.start_resource_proof.voted_online = TRUE],
                        ParsecVote("Online",
                            [old |-> candidate_of(m).candidate, new |-> new_public_id]))
                ELSE m,
                new_public_id)
        ELSE m

rpc_proof(m, candidate, proof) ==
    LET from_candidate ==
            /\ has_candidate(m)
            /\ m.start_resource_proof.candidate_info # None
            /\ candidate = m.start_resource_proof.candidate_info[1].new_public_id
        new_public_id == m.start_resource_proof.candidate_info[1].new_public_id
    IN  IF from_candidate /\ ~m.start_resource_proof.voted_online
           /\ proof \in {"ValidPart", "ValidEnd"}
        THEN send_candidate_proof_receipt(
                IF proof = "ValidEnd"
                THEN vote_parsec(
                        [m EXCEPT !.start_resource_proof.voted_online = TRUE],
                        ParsecVote("Online",
                            [old |-> candidate_of(m).candidate, new |-> new_public_id]))
                ELSE m,
                new_public_id)
        ELSE m

\* try_consensus that takes every vote as being about the current candidate
StartResourceProof_try_consensus_any_candidate(m, vote) ==
    LET for_candidate == has_candidate(m)
    IN  CASE vote.kind = "CheckResourceProof" ->
                Handled(check_request_resource_proof(set_resource_proof_candidate(m)))
          [] vote.kind = "Online" /\ for_candidate ->
                Handled(make_node_online(m, vote.payload.new))
          [] vote.kind = "PurgeCandidate" /\ for_candidate ->
                Handled(StartResourceProof_purge_node_info(m))
          [] vote.kind \in {"Online", "PurgeCandidate"} /\ ~for_candidate ->
                Handled(m)
          [] OTHER -> Unhandled(m)

StartResourceProof_try_consensus(m, vote) ==
    LET for_candidate ==
            has_candidate(m) /\ vote_candidate(vote) = Some(candidate_of(m).candidate)
    IN  CASE vote.kind = "CheckResourceProof" ->
                Handled(check_request_resource_proof(set_resource_proof_candidate(m)))
          [] vote.kind = "Online" /\ for_candidate ->
                Handled(make_node_online(m, vote.payload.new))
          [] vote.kind = "PurgeCandidate" /\ for_candidate ->
                Handled(StartResourceProof_purge_node_info(m))
          [] vote.kind \in {"Online", "PurgeCandidate"} /\ ~for_candidate ->
                Handled(m)
          [] OTHER -> Unhandled(m)

StartResourceProof_try_local_event(m, local_event) ==
    CASE local_event.kind = "TimeoutAccept" ->
            Handled(vote_parsec_purge_candidate(m))
      [] local_event.kind = "CheckResourceProofTimeout" ->
            Handled(vote_parsec_check_resource_proof(m))
      [] OTHER -> Unhandled(m)

StartResourceProof_try_next(m, event) ==
    CASE event.kind = "Rpc" /\ event.payload.kind = "ResourceProofResponse" ->
            Handled(rpc_proof(m, event.payload.payload.candidate,
                              event.payload.payload.proof))
      [] event.kind = "Rpc" /\ event.payload.kind = "CandidateInfo" ->
            Handled(rpc_info(m, event.payload.payload))
      [] event.kind = "ParsecConsensus" ->
            StartResourceProof_try_consensus(m, event.payload)
      [] event.kind = "LocalEvent" ->
            StartResourceProof_try_local_event(m, event.payload)
      [] OTHER -> Unhandled(m)

\* ------------------------------------------------------------------
\* flows_src.rs : StartDecidesOnNodeToRelocate
\* ------------------------------------------------------------------
start_work_unit_timeout(m) == schedule_event(m, "TimeoutWorkUnit")

vote_parsec_work_unit_increment(m) ==
    vote_parsec(m, ParsecVote("WorkUnitIncrement", None))

set_relocating_candidate(m, candidate) ==
    set_candidate_relocating_state(m, candidate)

check_get_node_to_relocate(m) ==
    IF has_relocating_node(m) THEN m
    ELSE IF get_node_to_relocate(m) # None
    THEN set_relocating_candidate(m, get_node_to_relocate(m)[1])
    ELSE m

StartDecidesOnNodeToRelocate_try_next(m, event) ==
    CASE event.kind = "LocalEvent" /\ event.payload.kind = "TimeoutWorkUnit" ->
            Handled(start_work_unit_timeout(vote_parsec_work_unit_increment(m)))
      [] event.kind = "ParsecConsensus" /\ event.payload.kind = "WorkUnitIncrement" ->
            Handled(check_get_node_to_relocate(increment_nodes_work_units(m)))
      [] OTHER -> Unhandled(m)

\* ------------------------------------------------------------------
\* flows_src.rs : StartRelocateSrc
\* ------------------------------------------------------------------
start_check_relocate_timeout(m) == schedule_event(m, "TimeoutCheckRelocate")

\* check_need_relocate: the rpc is sent, then the candidate is recorded
insert_already_relocating(m, candidate) ==
    IF candidate \in DOMAIN m.start_relocate_src.already_relocating
    THEN Panic(m, "check_need_relocate")
    ELSE [m EXCEPT !.start_relocate_src.already_relocating = Insert(@, candidate, 0)]

\* check_need_relocate: the if-let on the best relocating node
send_expect_candidate(m, best) ==
    IF best = None THEN m
    ELSE insert_already_relocating(send_rpc(m, Rpc("ExpectCandidate", best[1])),
                                   best[1])

check_need_relocate(m) ==
    send_expect_candidate(m,
        get_best_relocating_node_and_target(
            m, m.start_relocate_src.already_relocating))

\* update_wait_and_allow_resend that keeps a node for one more check
update_wait_and_allow_resend_late(m) ==
    LET old == m.start_relocate_src.already_relocating
        kept == {c \in DOMAIN old : old[c] + 1 <= RESEND_COUNT}
    IN  IF m.abort # "none" THEN m
        ELSE [m EXCEPT !.start_relocate_src.already_relocating =
                    [c \in kept |-> old[c] + 1]]

update_wait_and_allow_resend(m) ==
    LET old == m.start_relocate_src.already_relocating
        kept == {c \in DOMAIN old : old[c] + 1 < RESEND_COUNT}
    IN  IF m.abort # "none" THEN m
        ELSE [m EXCEPT !.start_relocate_src.already_relocating =
                    [c \in kept |-> old[c] + 1]]

\* allow_resend that leaves the candidate in already_relocating
allow_resend_keep(m, candidate) ==
    IF candidate \notin DOMAIN m.start_relocate_src.already_relocating
    THEN Panic(m, "allow_resend")
    ELSE m

allow_resend(m, candidate) ==
    IF candidate \notin DOMAIN m.start_relocate_src.already_relocating
    THEN Panic(m, "allow_resend")
    ELSE [m EXCEPT !.start_relocate_src.already_relocating = Remove(@, candidate)]

\* set_relocated_and_prepare_info that votes without marking the row
set_relocated_and_prepare_info_vote_only(m, info) ==
    vote_parsec(m, ParsecVote("RelocatedInfo", info))

set_relocated_and_prepare_info(m, info) ==
    vote_parsec(set_candidate_relocated_state(m, info),
                ParsecVote("RelocatedInfo", info))

check_is_our_relocating_node(m, vote, candidate) ==
    IF is_our_relocating_node(m, candidate)
    THEN IF vote.kind = "RefuseCandidate"
         THEN allow_resend(m, vote.payload)
         ELSE set_relocated_and_prepare_info(m, vote.payload)
    ELSE m

send_candidate_relocated_info_rpc(m, info) ==
    send_rpc(m, Rpc("RelocatedInfo", info))

StartRelocateSrc_purge_node_info(m, info) ==
    purge_node_info(m, info.candidate.name)

StartRelocateSrc_try_consensus(m, vote) ==
    CASE vote.kind = "CheckRelocate" ->
            Handled(update_wait_and_allow_resend(check_need_relocate(m)))
      [] vote.kind \in {"RefuseCandidate", "RelocateResponse"} ->
            Handled(check_is_our_relocating_node(m, vote, vote_candidate(vote)[1]))
      [] vote.kind = "RelocatedInfo" ->
            Handled(StartRelocateSrc_purge_node_info(
                        send_candidate_relocated_info_rpc(m, vote.payload),
                        vote.payload))
      [] OTHER -> Unhandled(m)

StartRelocateSrc_try_next(m, event) ==
    CASE event.kind = "LocalEvent" /\ event.payload.kind = "TimeoutCheckRelocate" ->
            Handled(start_check_relocate_timeout(
                        vote_parsec(m, ParsecVote("CheckRelocate", None))))
      [] event.kind = "Rpc" /\ event.payload.kind = "RefuseCandidate" ->
            Handled(vote_parsec(m, ParsecVote("RefuseCandidate", event.payload.payload)))
      [] event.kind = "Rpc" /\ event.payload.kind = "RelocateResponse" ->
            Handled(vote_parsec(m, ParsecVote("RelocateResponse", event.payload.payload)))
      [] event.kind = "ParsecConsensus" ->
            StartRelocateSrc_try_consensus(m, event.payload)
      [] OTHER -> Unhandled(m)

\* ------------------------------------------------------------------
\* flows_elder.rs : StartMergeSplitAndChangeElders and its sub-flows
\* ------------------------------------------------------------------
RECURSIVE vote_all(_, _)
vote_all(m, votes) ==
    IF votes = <<>> THEN m ELSE vote_all(vote_parsec(m, Head(votes)), Tail(votes))

\* Vec::retain(|wait_vote| wait_vote != vote)
retain_other(wait_votes, vote) ==
    LET keep(wait_vote) == wait_vote # vote IN SelectSeq(wait_votes, keep)

contains(wait_votes, vote) == \E i \in 1..Len(wait_votes) : wait_votes[i] = vote

start_check_elder_timeout(m) == schedule_event(m, "TimeoutCheckElder")

transition_exit_process_elder_change(m) == start_check_elder_timeout(m)

transition_exit_process_split(m) == start_check_elder_timeout(m)

\* an exit of ProcessMerge that schedules nothing
transition_exit_process_merge_silent(m) == m

transition_exit_process_merge(m) == start_check_elder_timeout(m)

vote_for_elder_change(m, change_elder) ==
    LET votes == get_elder_change_votes(change_elder)
    IN  vote_all(
            [m EXCEPT
                !.start_merge_split_and_change_elders
                    .sub_routine_process_elder_change.change_elder = Some(change_elder),
                !.start_merge_split_and_change_elders
                    .sub_routine_process_elder_change.wait_votes = votes],
            votes)

ProcessElderChange_start_event_loop(m, change_elder) ==
    vote_for_elder_change(
        [m EXCEPT
            !.start_merge_split_and_change_elders
                .sub_routine_process_elder_change.is_active = TRUE,
            !.start_merge_split_and_change_elders
                .sub_routine_process_elder_change.change_elder = Some(change_elder)],
        change_elder)

ProcessElderChange_exit_event_loop(m) ==
    IF m.abort # "none" THEN m
    ELSE transition_exit_process_elder_change(
            [m EXCEPT
                !.start_merge_split_and_change_elders
                    .sub_routine_process_elder_change.is_active = FALSE,
                !.start_merge_split_and_change_elders
                    .sub_routine_process_elder_change.change_elder = None])

ProcessElderChange_mark_elder_change(m) ==
    LET taken == m.start_merge_split_and_change_elders
                    .sub_routine_process_elder_change.change_elder
    IN  IF taken = None THEN Panic(m, "ProcessElderChange::mark_elder_change")
        ELSE mark_elder_change(
                [m EXCEPT
                    !.start_merge_split_and_change_elders
                        .sub_routine_process_elder_change.change_elder = None],
                taken[1])

ProcessElderChange_try_consensus(m, vote) ==
    LET state == m.start_merge_split_and_change_elders.sub_routine_process_elder_change
        wait_votes == retain_other(state.wait_votes, vote)
        m1 == [m EXCEPT
                !.start_merge_split_and_change_elders
                    .sub_routine_process_elder_change.wait_votes = wait_votes]
    IN  IF ~contains(state.wait_votes, vote) THEN Unhandled(m)
        ELSE IF wait_votes = <<>>
        THEN Handled(ProcessElderChange_exit_event_loop(
                        ProcessElderChange_mark_elder_change(m1)))
        ELSE Handled(m1)

ProcessElderChange_try_next(m, event) ==
    IF event.kind = "ParsecConsensus"
    THEN ProcessElderChange_try_consensus(m, event.payload)
    ELSE Unhandled(m)

\* check_sibling_merge_info that merges with any stored info
check_sibling_merge_info_any(m) ==
    IF has_merge_infos(m)
    THEN LET merged == merge_sibling_info_to_new_section(m)
         IN  vote_parsec(merged.m, ParsecVote("NewSectionInfo", merged.new_section))
    ELSE m

check_sibling_merge_info(m) ==
    IF has_sibling_merge_info(m)
    THEN LET merged == merge_sibling_info_to_new_section(m)
         IN  vote_parsec(merged.m, ParsecVote("NewSectionInfo", merged.new_section))
    ELSE m

ProcessMerge_set_is_active(m, is_active) ==
    [m EXCEPT !.start_merge_split_and_change_elders
                    .sub_routine_process_merge_active = is_active]

ProcessMerge_start_event_loop(m) ==
    check_sibling_merge_info(send_merge_rpc(ProcessMerge_set_is_active(m, TRUE)))

ProcessMerge_exit_event_loop(m) ==
    transition_exit_process_merge(ProcessMerge_set_is_active(m, FALSE))

ProcessMerge_try_consensus(m, vote) ==
    CASE vote.kind = "NewSectionInfo" ->
            Handled(ProcessMerge_exit_event_loop(complete_merge(m)))
      [] vote.kind = "NeighbourMerge" ->
            Handled(check_sibling_merge_info(store_merge_infos(m, vote.payload)))
      [] OTHER -> Unhandled(m)

ProcessMerge_try_next(m, event) ==
    IF event.kind = "ParsecConsensus"
    THEN ProcessMerge_try_consensus(m, event.payload)
    ELSE Unhandled(m)

vote_for_split_sections(m) ==
    LET votes == get_section_split_votes(m)
    IN  vote_all(
            [m EXCEPT !.start_merge_split_and_change_elders
                            .sub_routine_process_split.wait_votes = votes],
            votes)

ProcessSplit_start_event_loop(m) ==
    vote_for_split_sections(
        [m EXCEPT !.start_merge_split_and_change_elders
                        .sub_routine_process_split.is_active = TRUE])

ProcessSplit_exit_event_loop(m) ==
    transition_exit_process_split(
        [m EXCEPT !.start_merge_split_and_change_elders
                        .sub_routine_process_split.is_active = FALSE])

\* try_consensus that completes the split on the first vote it waits for
ProcessSplit_try_consensus_on_first(m, vote) ==
    LET state == m.start_merge_split_and_change_elders.sub_routine_process_split
        wait_votes == retain_other(state.wait_votes, vote)
        m1 == [m EXCEPT !.start_merge_split_and_change_elders
                            .sub_routine_process_split.wait_votes = wait_votes]
    IN  IF ~contains(state.wait_votes, vote) THEN Unhandled(m)
        ELSE Handled(ProcessSplit_exit_event_loop(complete_split(m1)))

ProcessSplit_try_consensus(m, vote) ==
    LET state == m.start_merge_split_and_change_elders.sub_routine_process_split
        wait_votes == retain_other(state.wait_votes, vote)
        m1 == [m EXCEPT !.start_merge_split_and_change_elders
                            .sub_routine_process_split.wait_votes = wait_votes]
    IN  IF ~contains(state.wait_votes, vote) THEN Unhandled(m)
        ELSE IF wait_votes = <<>>
        THEN Handled(ProcessSplit_exit_event_loop(complete_split(m1)))
        ELSE Handled(m1)

ProcessSplit_try_next(m, event) ==
    IF event.kind = "ParsecConsensus"
    THEN ProcessSplit_try_consensus(m, event.payload)
    ELSE Unhandled(m)

concurrent_transition_to_process_merge(m) == ProcessMerge_start_event_loop(m)

concurrent_transition_to_process_split(m) == ProcessSplit_start_event_loop(m)

concurrent_transition_to_process_elder_change(m, change_elder) ==
    ProcessElderChange_start_event_loop(m, change_elder)

\* check_elder: the match on what Action::check_elder returned
transition_on_check_elder(m, change) ==
    IF change # None
    THEN concurrent_transition_to_process_elder_change(m, change[1])
    ELSE IF split_needed(m) THEN concurrent_transition_to_process_split(m)
    ELSE start_check_elder_timeout(m)

StartMergeSplitAndChangeElders_check_elder(m) ==
    transition_on_check_elder(m, check_elder(m))

\* check_merge that recomputes the elders before it looks for a merge
check_merge_elders_first(m) ==
    IF check_elder(m) # None
    THEN StartMergeSplitAndChangeElders_check_elder(m)
    ELSE IF has_merge_infos(m) \/ merge_needed(m)
    THEN concurrent_transition_to_process_merge(m)
    ELSE StartMergeSplitAndChangeElders_check_elder(m)

check_merge(m) ==
    IF has_merge_infos(m) \/ merge_needed(m)
    THEN concurrent_transition_to_process_merge(m)
    ELSE StartMergeSplitAndChangeElders_check_elder(m)

StartMergeSplitAndChangeElders_try_next(m, event) ==
    CASE event.kind = "ParsecConsensus" /\ event.payload.kind = "NeighbourMerge" ->
            Handled(store_merge_infos(m, event.payload.payload))
      [] event.kind = "ParsecConsensus" /\ event.payload.kind = "CheckElder" ->
            Handled(check_merge(m))
      [] event.kind = "Rpc" /\ event.payload.kind = "Merge" ->
            Handled(vote_parsec(m, ParsecVote("NeighbourMerge", event.payload.payload)))
      [] event.kind = "LocalEvent" /\ event.payload.kind = "TimeoutCheckElder" ->
            Handled(vote_parsec(m, ParsecVote("CheckElder", None)))
      [] OTHER -> Unhandled(m)

\* ------------------------------------------------------------------
\* flows_elder.rs : CheckOnlineOffline
\* ------------------------------------------------------------------
make_node_offline(m, node) == set_node_offline_state(m, node)

make_node_back_online(m, node) == set_node_back_online_state(m, node)

CheckOnlineOffline_try_next(m, event) ==
    CASE event.kind = "ParsecConsensus" /\ event.payload.kind = "Offline" ->
            Handled(make_node_offline(m, event.payload.payload))
      [] event.kind = "ParsecConsensus" /\ event.payload.kind = "BackOnline" ->
            Handled(make_node_back_online(m, event.payload.payload))
      [] event.kind = "LocalEvent" /\ event.payload.kind = "NodeDetectedOffline" ->
            Handled(vote_parsec(m, ParsecVote("Offline", event.payload.payload)))
      [] event.kind = "LocalEvent" /\ event.payload.kind = "NodeDetectedBackOnline" ->
            Handled(vote_parsec(m, ParsecVote("BackOnline", event.payload.payload)))
      [] OTHER -> Unhandled(m)

\* ------------------------------------------------------------------
\* state.rs : MemberState::try_next
\* ------------------------------------------------------------------
\* the try_next of one sub-machine of MemberState
routine_try_next(m, event, routine) ==
    CASE routine = "CheckOnlineOffline" -> CheckOnlineOffline_try_next(m, event)
      [] routine = "ProcessSplit" -> ProcessSplit_try_next(m, event)
      [] routine = "ProcessMerge" -> ProcessMerge_try_next(m, event)
      [] routine = "ProcessElderChange" -> ProcessElderChange_try_next(m, event)
      [] routine = "StartMergeSplitAndChangeElders" ->
            StartMergeSplitAndChangeElders_try_next(m, event)
      [] routine = "StartRelocateSrc" -> StartRelocateSrc_try_next(m, event)
      [] routine = "StartDecidesOnNodeToRelocate" ->
            StartDecidesOnNodeToRelocate_try_next(m, event)
      [] routine = "StartResourceProof" -> StartResourceProof_try_next(m, event)
      [] routine = "RespondToRelocateRequests" ->
            RespondToRelocateRequests_try_next(m, event)

\* the three sub-flows are offered the event only when active
routine_offered(m, routine) ==
    CASE routine = "ProcessSplit" ->
            m.start_merge_split_and_change_elders.sub_routine_process_split.is_active
      [] routine = "ProcessMerge" ->
            m.start_merge_split_and_change_elders.sub_routine_process_merge_active
      [] routine = "ProcessElderChange" ->
            m.start_merge_split_and_change_elders
                .sub_routine_process_elder_change.is_active
      [] OTHER -> TRUE

try_routine_always_offered(m, event, routine) == routine_try_next(m, event, routine)

try_routine(m, event, routine) ==
    IF routine_offered(m, routine) THEN routine_try_next(m, event, routine)
    ELSE Unhandled(m)

\* the first sub-machine of the list that handles the event wins; the next
\* one works on the state the one before it left
RECURSIVE offer(_, _, _)
RECURSIVE offer_rest(_, _, _, _)
offer(m, event, routines) ==
    IF routines = <<>> THEN Unhandled(m)
    ELSE offer_rest(m, event, routines, try_routine(m, event, Head(routines)))

offer_rest(m, event, routines, tried) ==
    IF tried.result = "Handled" THEN tried
    ELSE offer(tried.m, event, Tail(routines))

dispatch_order ==
    <<"CheckOnlineOffline", "ProcessSplit", "ProcessMerge", "ProcessElderChange",
      "StartMergeSplitAndChangeElders", "StartRelocateSrc",
      "StartDecidesOnNodeToRelocate", "StartResourceProof",
      "RespondToRelocateRequests">>

\* MemberState::try_next: the final match, when no sub-machine handled the event
unhandled_by_routines(m, event, offered) ==
    IF offered.result = "Handled" THEN offered
    ELSE IF event.kind = "Rpc" /\ event.payload.kind = "ConnectionInfoResponse"
    THEN Handled(action_triggered(m,
                ActionTriggered("NotYetImplementedErrorTriggered", None)))
    ELSE IF /\ event.kind = "ParsecConsensus"
            /\ event.payload.kind \in {"RemoveElderNode", "AddElderNode", "NewSectionInfo"}
    THEN Handled(action_triggered(m,
                ActionTriggered("UnexpectedEventErrorTriggered", None)))
    ELSE Unhandled(m)

MemberState_try_next(m, event) ==
    IF event.kind = "TestEvent" THEN Handled(process_test_events(m, event.payload))
    ELSE unhandled_by_routines(m, event, offer(m, event, dispatch_order))

\* ------------------------------------------------------------------
\* The member under test and the inputs of the harness
\* ------------------------------------------------------------------
Member ==
    [action |-> action,
     start_resource_proof |-> start_resource_proof,
     start_relocate_src |-> start_relocate_src,
     start_merge_split_and_change_elders |-> start_merge_split_and_change_elders,
     abort |-> abort]

\* scenario_tests.rs : INNER_ACTION_YOUNG_ELDERS / INNER_ACTION_OLD_ELDERS
initial_state(elders) ==
    with_next_target_interval(
        extend_current_nodes_with(
            extend_current_nodes_with(
                new_with_our_attributes(OUR_NODE),
                NodeState_default_elder(OUR_NODE), elders),
            NodeState_default(OUR_NODE), <<YOUNG_ADULT_205>>),
        TARGET_INTERVAL_1)

INNER_ACTION_YOUNG_ELDERS ==
    initial_state(<<NODE_ELDER_109, NODE_ELDER_110, NODE_ELDER_132>>)

INNER_ACTION_OLD_ELDERS ==
    initial_state(<<NODE_ELDER_130, NODE_ELDER_131, NODE_ELDER_132>>)

ProcessElderChangeState_default ==
    [is_active |-> FALSE, wait_votes |-> <<>>, change_elder |-> None]

ProcessSplitState_default == [is_active |-> FALSE, wait_votes |-> <<>>]

StartMergeSplitAndChangeEldersState_default ==
    [sub_routine_process_split |-> ProcessSplitState_default,
     sub_routine_process_elder_change |-> ProcessElderChangeState_default,
     sub_routine_process_merge_active |-> FALSE]

StartResourceProofState_default ==
    [candidate_info |-> None, candidate |-> None, voted_online |-> FALSE]

StartRelocateSrcState_default == [already_relocating |-> [c \in {} |-> 0]]

Candidates == {CANDIDATE_1_OLD, CANDIDATE_2_OLD}

\* the identities a relocated candidate may pick in its new section
NewPublicIds(old_public_id) ==
    IF old_public_id = CANDIDATE_1_OLD
    THEN {CANDIDATE_1, Attributes(10, TARGET_INTERVAL_1 + 1)}
    ELSE {CANDIDATE_2}

SeedNodes ==
    {NODE_ELDER_109, NODE_ELDER_110, NODE_ELDER_130, NODE_ELDER_131,
     NODE_ELDER_132, YOUNG_ADULT_205}

RowNodes == {action.our_current_nodes[n].node : n \in DOMAIN action.our_current_nodes}

\* the rows of candidates that have not finished joining
WaitingNodes ==
    {node \in RowNodes :
        is_not_yet_full_node(action.our_current_nodes[node.name].state)}

Range(seq) == {seq[i] : i \in 1..Len(seq)}

\* the rows on their way to another section
RelocatingNodes ==
    {node \in RowNodes : is_relocating(action.our_current_nodes[node.name].state)}

\* the nodes named in the votes an elder change waits for, and our own node as
\* one whose vote is awaited by nobody
ElderVoteNodes ==
    {vote.payload :
        vote \in {v \in Range(start_merge_split_and_change_elders
                                .sub_routine_process_elder_change.wait_votes) :
                    v.kind \in {"AddElderNode", "RemoveElderNode"}}}
    \cup {OUR_NODE}

\* the rows that were given a ticket by their destination
RelocatedNodes ==
    {node \in RowNodes : action.our_current_nodes[node.name].state.tag = "Relocated"}

\* the nodes the harness takes offline and back: an elder of each seed, and a
\* candidate that has not finished joining
OfflineNodes == (RowNodes \cap {NODE_ELDER_130, NODE_ELDER_110}) \cup WaitingNodes

SectionInfos ==
    {SectionInfo(OUR_SECTION, v) : v \in 1..MaxVersion}
    \cup {OTHER_SECTION_INFO, REMOTE_OTHER_SECTION_INFO}

\* functional_tests.rs : get_relocated_info
get_relocated_info(candidate, section_info) ==
    RelocatedInfo(candidate, increment_by_one(candidate.age),
                  TARGET_INTERVAL_1, section_info)

\* the seed nodes that are not rows of the table
AbsentSeedNodes(m) == {node \in SeedNodes : node.name \notin RowNames(m)}

\* each seed leaves this many of the scenario's nodes out
SeedAbsent ==
    Cardinality(SeedNodes)
    - Cardinality(DOMAIN INNER_ACTION_OLD_ELDERS.our_current_nodes)

\* what the harness keeps the run within
BoundedWithin(m, admissions) ==
    /\ m.action.next_target_interval <= TARGET_INTERVAL_1 + admissions
    /\ m.action.our_section.version <= MaxVersion
    /\ Cardinality(AbsentSeedNodes(m)) <= SeedAbsent + MaxPurged

Bounded(m) == BoundedWithin(m, MaxAdmissions)

\* the RelocateResponse payloads of a journal
RECURSIVE tickets_sent(_)
tickets_sent(events) ==
    IF events = <<>> THEN <<>>
    ELSE IF Head(events).kind = "Rpc" /\ Head(events).payload.kind = "RelocateResponse"
         THEN <<Head(events).payload.payload>> \o tickets_sent(Tail(events))
         ELSE tickets_sent(Tail(events))

\* the rows a journal records as added
RECURSIVE rows_added(_)
rows_added(events) ==
    IF events = <<>> THEN <<>>
    ELSE IF Head(events).kind = "NodeChange" /\ Head(events).payload.kind = "AddWithState"
         THEN <<Head(events).payload.payload>> \o rows_added(Tail(events))
         ELSE rows_added(Tail(events))

\* the votes a journal records, in order
RECURSIVE votes_cast(_)
votes_cast(events) ==
    IF events = <<>> THEN <<>>
    ELSE IF Head(events).kind = "ParsecConsensus"
         THEN <<Head(events).payload>> \o votes_cast(Tail(events))
         ELSE votes_cast(Tail(events))

is_consensus(event, kind) ==
    event.kind = "ParsecConsensus" /\ event.payload.kind = kind

\* ticket[c]: the ticket last sent for c on a consensus of ExpectCandidate(c),
\* forgotten when Online or PurgeCandidate for c reaches consensus
next_ticket(event, m) ==
    IF is_consensus(event, "ExpectCandidate") /\ event.payload.payload \in Candidates
    THEN [ticket EXCEPT ![event.payload.payload] =
            IF tickets_sent(m.action.our_events) # <<>>
            THEN Some(tickets_sent(m.action.our_events)[1])
            ELSE @]
    ELSE IF /\ event.kind = "ParsecConsensus"
            /\ event.payload.kind \in {"Online", "PurgeCandidate"}
            /\ vote_candidate(event.payload)[1] \in Candidates
    THEN [ticket EXCEPT ![vote_candidate(event.payload)[1]] = None]
    ELSE ticket

\* admitted: the target_interval_centre of the ticket of each admission (a row
\* added), in order
next_admitted(m) ==
    IF rows_added(m.action.our_events) # <<>>
    THEN admitted \o [i \in 1..Len(rows_added(m.action.our_events)) |->
            rows_added(m.action.our_events)[i].state.info[1].target_interval_centre]
    ELSE admitted

\* the nodes a journal records as offered to a destination
RECURSIVE expect_candidates_sent(_)
expect_candidates_sent(events) ==
    IF events = <<>> THEN {}
    ELSE IF Head(events).kind = "Rpc" /\ Head(events).payload.kind = "ExpectCandidate"
         THEN {Head(events).payload.payload} \cup expect_candidates_sent(Tail(events))
         ELSE expect_candidates_sent(Tail(events))

\* the row of c is in a Relocating state and is no elder
relocating_non_elder(m, c) ==
    /\ c.name \in DOMAIN m.action.our_current_nodes
    /\ m.action.our_current_nodes[c.name].node = c
    /\ is_relocating(m.action.our_current_nodes[c.name].state)
    /\ ~m.action.our_current_nodes[c.name].is_elder

\* throttle[c]: the consensuses of CheckRelocate since ExpectCandidate(c) was last
\* sent, that one included and at most 3; forgotten when RefuseCandidate(c)
\* reaches consensus or c is no longer a relocating non-elder
next_throttle(event, m) ==
    LET kept == {c \in DOMAIN throttle :
                    /\ relocating_non_elder(m, c)
                    /\ ~(is_consensus(event, "RefuseCandidate")
                            /\ event.payload.payload = c)}
        sent == expect_candidates_sent(m.action.our_events)
    IN  IF is_consensus(event, "CheckRelocate")
        THEN [c \in kept \cup sent |->
                IF c \in sent THEN 1
                ELSE IF throttle[c] < 3 THEN throttle[c] + 1 ELSE 3]
        ELSE [c \in kept |-> throttle[c]]

\* the candidates a journal records as sent a NodeApproval
RECURSIVE approvals_sent(_)
approvals_sent(events) ==
    IF events = <<>> THEN {}
    ELSE IF Head(events).kind = "Rpc" /\ Head(events).payload.kind = "NodeApproval"
         THEN {Head(events).payload.payload.candidate} \cup approvals_sent(Tail(events))
         ELSE approvals_sent(Tail(events))

\* approved: the new identities for which the consensus of Online was processed
\* (the candidate was made a member and sent its NodeApproval)
next_approved(m) == approved \cup approvals_sent(m.action.our_events)

\* a CheckElder consensus that entered ProcessElderChange and cast its votes
entered_elder_change(event, m) ==
    /\ is_consensus(event, "CheckElder")
    /\ m.start_merge_split_and_change_elders.sub_routine_process_elder_change.is_active
    /\ m.action.our_events # <<>>
    /\ votes_cast(m.action.our_events)
        = m.start_merge_split_and_change_elders.sub_routine_process_elder_change.wait_votes

\* pending_votes: the votes cast by the latest entry into ProcessElderChange;
\* seen_votes: those of them that reached consensus since
next_pending_votes(event, m) ==
    IF entered_elder_change(event, m) THEN votes_cast(m.action.our_events)
    ELSE IF event.kind = "ParsecConsensus"
            /\ Range(pending_votes) \subseteq seen_votes \cup {event.payload}
    THEN <<>>
    ELSE pending_votes

next_seen_votes(event, m) ==
    IF entered_elder_change(event, m) THEN {}
    ELSE IF event.kind = "ParsecConsensus" /\ event.payload \in Range(pending_votes)
    THEN IF seen_votes \cup {event.payload} = Range(pending_votes)
         THEN {} ELSE seen_votes \cup {event.payload}
    ELSE seen_votes

\* merge_voted: the sections ProcessMerge voted NewSectionInfo for since it
\* became active, on entry or on a consensus of NeighbourMerge
next_merge_voted(event, m) ==
    LET was_active == start_merge_split_and_change_elders.sub_routine_process_merge_active
        is_active == m.start_merge_split_and_change_elders.sub_routine_process_merge_active
        voted == {vote.payload : vote \in
                    {v \in Range(votes_cast(m.action.our_events)) :
                        v.kind = "NewSectionInfo"}}
    IN  IF ~is_active THEN {}
        ELSE IF ~was_active /\ is_consensus(event, "CheckElder") THEN voted
        ELSE IF was_active /\ is_consensus(event, "NeighbourMerge")
        THEN merge_voted \cup voted
        ELSE merge_voted

\* the RPCs of a journal, in order
RECURSIVE rpcs_sent(_)
rpcs_sent(events) ==
    IF events = <<>> THEN <<>>
    ELSE IF Head(events).kind = "Rpc"
         THEN <<Head(events)>> \o rpcs_sent(Tail(events))
         ELSE rpcs_sent(Tail(events))

\* the queue without its head when the head is the event just processed
delivered(queue, event) ==
    IF queue # <<>> /\ Head(queue) = event THEN Tail(queue) ELSE queue

\* relay, when one is set up: the RPCs sent by the joining node and not yet
\* given to the member, those sent by the member and not yet given to the
\* joining node, and the votes the member cast so far; each RPC is kept once
\* and in the order it was sent
\* the number of times a journal holds an entry
occurrences(events, entry) ==
    Cardinality({i \in 1..Len(events) : events[i] = entry})

\* the TimeoutCheckElder timers, when they are followed: scheduled counts the
\* timers scheduled and not yet fired, voted the CheckElder votes cast and not
\* yet agreed, started tells that CheckElder reached consensus
next_elder_timer(event, m) ==
    IF elder_timer = None THEN None
    ELSE LET fired == event = LocalEvent("TimeoutCheckElder", None)
             agreed == event = ParsecConsensus(ParsecVote("CheckElder", None))
         IN  Some([scheduled |-> elder_timer[1].scheduled
                        - (IF fired THEN 1 ELSE 0)
                        + occurrences(m.action.our_events,
                                      Scheduled("TimeoutCheckElder")),
                   voted |-> elder_timer[1].voted
                        - (IF agreed /\ elder_timer[1].voted > 0 THEN 1 ELSE 0)
                        + Len(SelectSeq(votes_cast(m.action.our_events),
                                        LAMBDA vote : vote.kind = "CheckElder")),
                   started |-> elder_timer[1].started \/ agreed])

\* to_member and to_joining hold the RPCs of the admission that the two send
\* each other; computing counts the proofs the joining node was asked to
\* compute and has not been told are ready
member_relayed(event, m) ==
    IF relay = None THEN None
    ELSE Some([relay[1] EXCEPT
            !.to_member = delivered(@, event),
            !.to_joining = @ \o SelectSeq(rpcs_sent(m.action.our_events),
                LAMBDA e : e.payload.kind \in
                    {"ResourceProof", "ResourceProofReceipt", "NodeApproval"}),
            !.votes = @ \o votes_cast(m.action.our_events)])

joining_relayed(event, j) ==
    IF relay = None THEN None
    ELSE Some([relay[1] EXCEPT
            !.to_member = @ \o SelectSeq(rpcs_sent(j.action.our_events),
                LAMBDA e : e.payload.kind \in {"CandidateInfo", "ResourceProofResponse"}
                           /\ e.payload.payload.destination = relay[1].member),
            !.to_joining = delivered(@, event),
            !.resends = IF event = LocalEvent("JoiningTimeoutResendInfo", None)
                        THEN @ + 1 ELSE @,
            !.computing =
                IF event.kind = "LocalEvent"
                   /\ event.payload.kind = "ResourceProofForElderReady"
                THEN @ - 1
                ELSE @ + Cardinality({i \in 1..Len(j.action.our_events) :
                        j.action.our_events[i]
                        = ActionTriggered("ComputeResourceProofForElder",
                                          relay[1].member)})])

\* the member becomes what try_next made of it; a failed check ends the run
\* the copy, when there is one, is fed the event in its turn: a failed check
\* stops it where it is
member_replayed(event) ==
    IF replica = None THEN None
    ELSE LET copy == replica[1]
             tried == MemberState_try_next(remove_processed_state(copy.m), event)
         IN  IF tried.m.abort # "none"
             THEN Some([copy EXCEPT !.m.abort = tried.m.abort])
             ELSE Some([m |-> tried.m, result |-> tried.result])

BecomeWithin(event, tried, admissions) ==
    IF tried.m.abort # "none"
    THEN /\ abort' = tried.m.abort
         /\ replica' = member_replayed(event)
         /\ UNCHANGED <<proof_vars, joining_vars, relay_vars>>
         /\ UNCHANGED <<action, start_resource_proof, start_relocate_src,
                        start_merge_split_and_change_elders, result,
                        ticket, pending_votes, seen_votes, admitted, approved,
                        throttle, merge_voted>>
    ELSE /\ BoundedWithin(tried.m, admissions)
         /\ action' = tried.m.action
         /\ start_resource_proof' = tried.m.start_resource_proof
         /\ start_relocate_src' = tried.m.start_relocate_src
         /\ start_merge_split_and_change_elders' =
                tried.m.start_merge_split_and_change_elders
         /\ result' = tried.result
         /\ abort' = "none"
         /\ ticket' = next_ticket(event, tried.m)
         /\ admitted' = next_admitted(tried.m)
         /\ approved' = next_approved(tried.m)
         /\ throttle' = next_throttle(event, tried.m)
         /\ merge_voted' = next_merge_voted(event, tried.m)
         /\ pending_votes' = next_pending_votes(event, tried.m)
         /\ seen_votes' = next_seen_votes(event, tried.m)
         /\ replica' = member_replayed(event)
         /\ relay' = member_relayed(event, tried.m)
         /\ elder_timer' = next_elder_timer(event, tried.m)
         /\ UNCHANGED <<proof_vars, joining_vars>>

Become(event, tried) == BecomeWithin(event, tried, MaxAdmissions)

StepWithin_keep_journal(event, admissions) ==
    BecomeWithin(event, MemberState_try_next(Member, event), admissions)

\* one event through MemberState::try_next, the journal cleared before it
StepWithin(event, admissions) ==
    BecomeWithin(event, MemberState_try_next(remove_processed_state(Member), event),
                 admissions)

Step(event) == StepWithin(event, MaxAdmissions)

\* no check has failed: the member still processes events
Running == abort = "none"

\* no sub-routine has started, nothing was processed; no ProofSource is in
\* use and no JoiningState was made
InitSubRoutines ==
    /\ start_resource_proof = StartResourceProofState_default
    /\ start_relocate_src = StartRelocateSrcState_default
    /\ start_merge_split_and_change_elders = StartMergeSplitAndChangeEldersState_default
    /\ result = "none"
    /\ abort = "none"
    /\ ticket = [c \in Candidates |-> None]
    /\ pending_votes = <<>>
    /\ seen_votes = {}
    /\ admitted = <<>>
    /\ approved = {}
    /\ throttle = [c \in {} |-> 0]
    /\ merge_voted = {}

\* a member on its own: no RPC is relayed to or from a joining node, and the
\* timers it schedules are not followed
InitRoutines == InitSubRoutines /\ relay = None /\ elder_timer = None

NoProofSource == proof_seed = 0 /\ proof_source = 0 /\ proof_calls = <<>>

NotJoining == joining = None /\ joining_result = "none"

NoReplica == replica = None

Init ==
    /\ action \in {INNER_ACTION_YOUNG_ELDERS, INNER_ACTION_OLD_ELDERS}
    /\ InitRoutines
    /\ NoReplica
    /\ NoProofSource
    /\ NotJoining

\* ------------------------------------------------------------------
\* Events reaching the member: consensus
\* ------------------------------------------------------------------
Consensus(kind, payload) == Step(ParsecConsensus(ParsecVote(kind, payload)))

ConsensusExpectCandidate ==
    \E c \in Candidates : Running /\ Consensus("ExpectCandidate", c)

ConsensusCheckResourceProof == Running /\ Consensus("CheckResourceProof", None)

ConsensusOnline ==
    \E old \in Candidates : \E new \in NewPublicIds(old) :
        Running /\ Consensus("Online", [old |-> old, new |-> new])

ConsensusPurgeCandidate ==
    \E c \in Candidates : Running /\ Consensus("PurgeCandidate", c)

ConsensusOffline ==
    \E node \in OfflineNodes : Running /\ Consensus("Offline", node)

ConsensusBackOnline ==
    \E node \in OfflineNodes : Running /\ Consensus("BackOnline", node)

ConsensusWorkUnitIncrement == Running /\ Consensus("WorkUnitIncrement", None)

ConsensusCheckRelocate == Running /\ Consensus("CheckRelocate", None)

ConsensusRefuseCandidate ==
    \E node \in RowNodes : Running /\ Consensus("RefuseCandidate", node)

ConsensusRelocateResponse ==
    \E node \in RelocatingNodes \cup {OUR_NODE} :
        Running /\ Consensus("RelocateResponse",
                             get_relocated_info(node, DST_SECTION_INFO_200))

\* the vote is cast when the row becomes Relocated(info), and only then
ConsensusRelocatedInfo ==
    \E node \in RelocatedNodes :
        Running /\ Consensus("RelocatedInfo",
                             action.our_current_nodes[node.name].state.info[1])

ConsensusCheckElder == Running /\ Consensus("CheckElder", None)

ConsensusAddElderNode ==
    \E node \in ElderVoteNodes : Running /\ Consensus("AddElderNode", node)

ConsensusRemoveElderNode ==
    \E node \in ElderVoteNodes : Running /\ Consensus("RemoveElderNode", node)

ConsensusNewSectionInfo ==
    \E info \in SectionInfos : Running /\ Consensus("NewSectionInfo", info)

ConsensusNeighbourMerge ==
    \E info \in {OTHER_SECTION_INFO, REMOTE_OTHER_SECTION_INFO} :
        Running /\ Consensus("NeighbourMerge", info)

\* ------------------------------------------------------------------
\* Events reaching the member: RPCs, local events, test events
\* ------------------------------------------------------------------
RpcExpectCandidate ==
    \E c \in Candidates : Running /\ Step(Rpc("ExpectCandidate", c))

RpcCandidateInfo ==
    \E old \in Candidates : \E new \in NewPublicIds(old) :
    \E waiting \in WaitingNodes : \E valid \in BOOLEAN :
        Running /\ Step(Rpc("CandidateInfo",
                 CandidateInfo(old, new, our_name(Member), waiting.name, valid)))

RpcResourceProofResponse ==
    \E old \in Candidates : \E new \in NewPublicIds(old) :
    \E proof \in {"ValidPart", "ValidEnd", "Invalid"} :
        Running /\ Step(Rpc("ResourceProofResponse",
                 [candidate |-> new, destination |-> our_name(Member),
                  proof |-> proof]))

RpcRefuseCandidate ==
    \E node \in RowNodes : Running /\ Step(Rpc("RefuseCandidate", node))

RpcRelocateResponse ==
    \E node \in RowNodes :
        Running /\ Step(Rpc("RelocateResponse",
                           get_relocated_info(node, DST_SECTION_INFO_200)))

RpcMerge ==
    \E info \in {OTHER_SECTION_INFO, REMOTE_OTHER_SECTION_INFO} :
        Running /\ Step(Rpc("Merge", info))

RpcConnectionInfoResponse == Running /\ Step(Rpc("ConnectionInfoResponse", None))

LocalTimeoutAccept == Running /\ Step(LocalEvent("TimeoutAccept", None))

LocalCheckResourceProofTimeout ==
    Running /\ Step(LocalEvent("CheckResourceProofTimeout", None))

LocalTimeoutWorkUnit == Running /\ Step(LocalEvent("TimeoutWorkUnit", None))

LocalTimeoutCheckRelocate == Running /\ Step(LocalEvent("TimeoutCheckRelocate", None))

LocalTimeoutCheckElder == Running /\ Step(LocalEvent("TimeoutCheckElder", None))

LocalNodeDetectedOffline ==
    \E node \in OfflineNodes : Running /\ Step(LocalEvent("NodeDetectedOffline", node))

LocalNodeDetectedBackOnline ==
    \E node \in OfflineNodes : Running /\ Step(LocalEvent("NodeDetectedBackOnline", node))

TestSetShortestPrefix ==
    \E value \in {None, Some(OTHER_SECTION_1)} :
        Running /\ Step(TestEvent("SetShortestPrefix", value))

TestSetChurnNeeded ==
    \E kind \in {"Merge", "Split"} : Running /\ Step(TestEvent("SetChurnNeeded", kind))

TestSetWorkUnitEnoughToRelocate ==
    \E node \in RowNodes : Running /\ Step(TestEvent("SetWorkUnitEnoughToRelocate", node))

Next ==
    \/ ConsensusExpectCandidate
    \/ ConsensusCheckResourceProof
    \/ ConsensusOnline
    \/ ConsensusPurgeCandidate
    \/ ConsensusOffline
    \/ ConsensusBackOnline
    \/ ConsensusWorkUnitIncrement
    \/ ConsensusCheckRelocate
    \/ ConsensusRefuseCandidate
    \/ ConsensusRelocateResponse
    \/ ConsensusRelocatedInfo
    \/ ConsensusCheckElder
    \/ ConsensusAddElderNode
    \/ ConsensusRemoveElderNode
    \/ ConsensusNewSectionInfo
    \/ ConsensusNeighbourMerge
    \/ RpcExpectCandidate
    \/ RpcCandidateInfo
    \/ RpcResourceProofResponse
    \/ RpcRefuseCandidate
    \/ RpcRelocateResponse
    \/ RpcMerge
    \/ RpcConnectionInfoResponse
    \/ LocalTimeoutAccept
    \/ LocalCheckResourceProofTimeout
    \/ LocalTimeoutWorkUnit
    \/ LocalTimeoutCheckRelocate
    \/ LocalTimeoutCheckElder
    \/ LocalNodeDetectedOffline
    \/ LocalNodeDetectedBackOnline
    \/ TestSetShortestPrefix
    \/ TestSetChurnNeeded
    \/ TestSetWorkUnitEnoughToRelocate

Spec == Init /\ [][Next]_vars

\* the destination side: admission of a relocated candidate and its proof,
\* with the changes of the node table and of the elders around it
NextDst ==
    \/ ConsensusExpectCandidate
    \/ ConsensusCheckResourceProof
    \/ ConsensusOnline
    \/ ConsensusPurgeCandidate
    \/ ConsensusOffline
    \/ ConsensusBackOnline
    \/ RpcExpectCandidate
    \/ RpcCandidateInfo
    \/ RpcResourceProofResponse
    \/ LocalTimeoutAccept
    \/ LocalCheckResourceProofTimeout
    \/ TestSetShortestPrefix

\* scenario_tests.rs : initial_state_old_elders
InitOldElders == Init /\ action = INNER_ACTION_OLD_ELDERS

SpecDst == InitOldElders /\ [][NextDst]_vars

\* the members of the section: admissions, purges, relocations, nodes going
\* offline and coming back, and the elder changes that follow
NextMembers ==
    \/ ConsensusExpectCandidate
    \/ ConsensusCheckResourceProof
    \/ ConsensusOnline
    \/ ConsensusPurgeCandidate
    \/ ConsensusOffline
    \/ ConsensusBackOnline
    \/ ConsensusRelocateResponse
    \/ ConsensusRelocatedInfo
    \/ ConsensusCheckElder
    \/ ConsensusAddElderNode
    \/ ConsensusRemoveElderNode
    \/ ConsensusNewSectionInfo

SpecMembers == InitOldElders /\ [][NextMembers]_vars

\* the elder side: CheckElder and the merge, split and elder-change sub-flows
NextElder ==
    \/ ConsensusCheckElder
    \/ ConsensusAddElderNode
    \/ ConsensusRemoveElderNode
    \/ ConsensusNewSectionInfo
    \/ ConsensusNeighbourMerge
    \/ ConsensusOffline
    \/ ConsensusBackOnline
    \/ TestSetChurnNeeded

SpecElder == Init /\ [][NextElder]_vars

\* check_elder over node tables built with extend_current_nodes_with: our node
\* is a row, each of the others is absent or a row in one of TableStates,
\* flagged or not, with at most ELDER_SIZE rows flagged
TableNodes ==
    <<NODE_ELDER_130, NODE_ELDER_131, NODE_ELDER_110, CANDIDATE_1, YOUNG_ADULT_205>>

TableStates == {StateOnline, StateRelocatingAgeIncrease, StateOffline}

RowChoices(node) ==
    {None} \cup {Some(NodeState(node, 0, flag, state)) :
                    flag \in BOOLEAN, state \in TableStates}

RECURSIVE extend_with_choices(_, _, _)
extend_with_choices(inner, choice, i) ==
    IF i > Len(TableNodes) THEN inner
    ELSE extend_with_choices(
            IF choice[i] = None THEN inner
            ELSE extend_current_nodes(inner, <<choice[i][1]>>),
            choice, i + 1)

elder_count(inner) ==
    Cardinality({n \in DOMAIN inner.our_current_nodes :
                    inner.our_current_nodes[n].is_elder})

\* a table with our node and the chosen rows
table_of(our_flag, choice) ==
    extend_with_choices(
        with_next_target_interval(
            extend_current_nodes(
                new_with_our_attributes(OUR_NODE),
                <<NodeState(OUR_NODE, 0, our_flag, StateOnline)>>),
            TARGET_INTERVAL_1),
        choice, 1)

InitCheckElder ==
    /\ \E our_flag \in BOOLEAN :
       \E c1 \in RowChoices(TableNodes[1]), c2 \in RowChoices(TableNodes[2]),
          c3 \in RowChoices(TableNodes[3]), c4 \in RowChoices(TableNodes[4]),
          c5 \in RowChoices(TableNodes[5]) :
            /\ action = table_of(our_flag, <<c1, c2, c3, c4, c5>>)
            /\ elder_count(action) <= ELDER_SIZE
    /\ InitRoutines
    /\ NoReplica
    /\ NoProofSource
    /\ NotJoining

NextCheckElder == ConsensusCheckElder

SpecCheckElder == InitCheckElder /\ [][NextCheckElder]_vars

\* ------------------------------------------------------------------
\* Properties of the destination side
\* ------------------------------------------------------------------
\* the member after one more event, from the current state
after(event) == MemberState_try_next(remove_processed_state(Member), event).m

expect_candidate(c) == after(ParsecConsensus(ParsecVote("ExpectCandidate", c)))

\* m ran to its end, journaled exactly events and left the table as it is now
only_effect(m, events) ==
    /\ m.abort = "none"
    /\ m.action.our_events = events
    /\ m.action.our_current_nodes = action.our_current_nodes
    /\ m.action.next_target_interval = action.next_target_interval

\* C1: whenever check_shortest_prefix() is Some, consensus of ExpectCandidate(c)
\* emits exactly Rpc::ExpectCandidate(c) and does not admit locally: no row is
\* added, next_target_interval is unchanged and no RelocateResponse is sent.
C1_ForwardOnShorterPrefix ==
    \A c \in Candidates :
        (Running /\ check_shortest_prefix(Member) # None)
        => only_effect(expect_candidate(c), <<Rpc("ExpectCandidate", c)>>)

\* C2: once a ticket has been sent for c, and until Online or PurgeCandidate for
\* c reaches consensus, a further consensus of ExpectCandidate(c) sends
\* RelocateResponse with the identical ticket, adds no row and does not advance
\* next_target_interval, whatever other events came between.
C2_IdempotentReadmission ==
    \A c \in Candidates :
        (Running /\ ticket[c] # None)
        => only_effect(expect_candidate(c), <<Rpc("RelocateResponse", ticket[c][1])>>)

\* C3: when consensus ExpectCandidate(c) arrives while another candidate is
\* mid-admission (count_waiting_proofing_or_hop() > 0 and no ticket row for c),
\* the only effect is Rpc::RefuseCandidate(c): the node table and
\* next_target_interval are unchanged.
C3_RefuseOnBusy ==
    \A c \in Candidates :
        (/\ Running
         /\ count_waiting_proofing_or_hop(Member) > 0
         /\ get_waiting_candidate_info(Member, c) = None)
        => only_effect(expect_candidate(c), <<Rpc("RefuseCandidate", c)>>)

\* a second candidate has just been refused while the first is still joining
C3_Witness ==
    /\ action.our_events = <<Rpc("RefuseCandidate", CANDIDATE_2_OLD)>>
    /\ result = "Handled"
    /\ count_waiting_proofing_or_hop(Member) > 0
    /\ get_waiting_candidate_info(Member, CANDIDATE_1_OLD) # None

the_ticket(c) ==
    RelocatedInfo(c, c.age + 1, action.next_target_interval, action.our_section)

the_row(c) ==
    NodeState(Attributes(c.age + 1, action.next_target_interval), 0, FALSE,
              StateWaitingCandidateInfo(the_ticket(c)))

admitted_as(m, row, info) ==
    /\ m.action.our_events
        = <<NodeChange("AddWithState", [node |-> row.node, state |-> row.state]),
            Rpc("RelocateResponse", info)>>
    /\ m.action.our_current_nodes
        = Insert(action.our_current_nodes, info.target_interval_centre, row)

ran_to_end_implies_admitted(m, c) ==
    m.abort = "none" => admitted_as(m, the_row(c), the_ticket(c))

admits(m) == m.abort = "none" /\ rows_added(m.action.our_events) # <<>>

\* what an admission by m does to next_target_interval and to the targets
advances_iff_admits(m) ==
    /\ m.abort = "none"
        => /\ m.action.next_target_interval
                = action.next_target_interval + Bool(admits(m))
           /\ admits(m)
                => \A i \in 1..Len(rows_added(m.action.our_events)) :
                        rows_added(m.action.our_events)[i].state.info[1]
                            .target_interval_centre \notin Range(admitted)
    /\ m.abort # "none" => m.action.next_target_interval >= action.next_target_interval

no_target_twice(targets) ==
    \A i, j \in 1..Len(targets) : targets[i] = targets[j] => i = j

target_interval_step ==
    /\ action'.next_target_interval >= action.next_target_interval
    /\ (action'.next_target_interval = action.next_target_interval + 1)
        <=> (Len(admitted') = Len(admitted) + 1)
    /\ action'.next_target_interval \in
        {action.next_target_interval, action.next_target_interval + 1}
    /\ no_target_twice(admitted')
    /\ \A c \in Candidates : Running => advances_iff_admits(expect_candidate(c))

\* C6: over any run next_target_interval never decreases; it increases by
\* exactly 1 in a step if and only if that step admits a new candidate (a row is
\* added), and no two admissions issue the same target_interval_centre, neither
\* those made so far nor one a further consensus of ExpectCandidate would make.
C6_TargetIntervalAdvances == [][target_interval_step]_vars

\* one admission has been made and next_target_interval is one further
C6_Witness ==
    /\ admitted = <<TARGET_INTERVAL_1>>
    /\ action.next_target_interval = TARGET_INTERVAL_1 + 1
    /\ rows_added(action.our_events) # <<>>

\* m took the admit branch of consensused_expect_candidate
takes_admit_branch(c) ==
    /\ Running
    /\ get_waiting_candidate_info(Member, c) = None
    /\ count_waiting_proofing_or_hop(Member) = 0

rows_of(inner) == {inner.our_current_nodes[n] : n \in DOMAIN inner.our_current_nodes}

\* q comes before r: state ascending, then age descending, then name ascending
precedes(q, r) ==
    \/ StateCmp(q.state, r.state) < 0
    \/ /\ StateCmp(q.state, r.state) = 0
       /\ \/ q.node.age > r.node.age
          \/ q.node.age = r.node.age /\ q.node.name < r.node.name

\* r is among the first min(3, n) of rows
must_be_elder(r, rows) ==
    Cardinality({q \in rows : precedes(q, r)}) < Min(3, Cardinality(rows))

\* the nodes whose flag must become flag
must_flip(rows, flag) ==
    {r.node : r \in {q \in rows : q.is_elder # flag /\ must_be_elder(q, rows) = flag}}

nodes_changed_to(changes, flag) ==
    {changes[i].node : i \in {j \in 1..Len(changes) : changes[j].new_is_elder = flag}}

additions_first(changes) ==
    \A i, j \in 1..Len(changes) :
        (changes[i].new_is_elder /\ ~changes[j].new_is_elder) => i < j

matches_reference(out, additions, removals, section) ==
    IF additions \cup removals = {} THEN out = None
    ELSE /\ out # None
         /\ nodes_changed_to(out[1].changes, TRUE) = additions
         /\ nodes_changed_to(out[1].changes, FALSE) = removals
         /\ Len(out[1].changes) = Cardinality(additions) + Cardinality(removals)
         /\ additions_first(out[1].changes)
         /\ out[1].new_section = SectionInfo(section.section, section.version + 1)

ProcessElderChangeState ==
    start_merge_split_and_change_elders.sub_routine_process_elder_change

\* C8: check_elder() agrees with the reference rule (rows sorted by state
\* ascending with Online first, age descending, name ascending; the first
\* min(3, n) are elders): it is None iff that set is the set of rows flagged
\* is_elder, otherwise it holds exactly the rows whose flag must flip, additions
\* before removals, and new_section = (our_section.section, version + 1); a
\* CheckElder consensus stores that very result as the pending change.
C8_CheckElderMatchesReference ==
    /\ matches_reference(check_elder(Member),
                         must_flip(rows_of(action), TRUE),
                         must_flip(rows_of(action), FALSE),
                         action.our_section)
    /\ ProcessElderChangeState.is_active
        => ProcessElderChangeState.change_elder = check_elder(Member)

\* a CheckElder consensus found both an elder to add and an elder to remove
C8_Witness ==
    /\ result = "Handled"
    /\ ProcessElderChangeState.is_active
    /\ ProcessElderChangeState.change_elder # None
    /\ nodes_changed_to(ProcessElderChangeState.change_elder[1].changes, TRUE) # {}
    /\ nodes_changed_to(ProcessElderChangeState.change_elder[1].changes, FALSE) # {}

\* C9: in every reachable state of a member started from a seed with at most
\* three elders, the number of rows flagged is_elder is at most
\* min(3, number of rows), whatever admissions, purges, relocations, offline and
\* back-online changes and elder changes came before.
C9_ElderBound ==
    elder_count(action) <= Min(3, Cardinality(DOMAIN action.our_current_nodes))

\* an elder change has completed: the young adult took the place of an elder
C9_Witness ==
    /\ action.our_section.version = 1
    /\ YOUNG_ADULT_205.name \in DOMAIN action.our_current_nodes
    /\ action.our_current_nodes[YOUNG_ADULT_205.name].is_elder
    /\ elder_count(action) = 3

is_elder_flags(inner) ==
    [n \in DOMAIN inner.our_current_nodes |-> inner.our_current_nodes[n].is_elder]

\* no row kept from before to after has its flag changed
same_flags(before, later) ==
    \A n \in DOMAIN before \cap DOMAIN later : later[n] = before[n]

\* the flags once every change has been applied
flags_after(flags, changes) ==
    [n \in DOMAIN flags |->
        IF \E i \in 1..Len(changes) : changes[i].node.name = n
        THEN LET i == CHOOSE j \in 1..Len(changes) : changes[j].node.name = n
             IN  changes[i].new_is_elder
        ELSE flags[n]]

\* the step in which the last of pending_votes reaches consensus
last_vote_step == pending_votes # <<>> /\ pending_votes' = <<>>

elder_change_completes ==
    /\ abort' = "none"
    /\ ProcessElderChangeState.change_elder # None
    /\ DOMAIN is_elder_flags(action') = DOMAIN is_elder_flags(action)
    /\ is_elder_flags(action')
        = flags_after(is_elder_flags(action),
                      ProcessElderChangeState.change_elder[1].changes)
    /\ action'.our_section = ProcessElderChangeState.change_elder[1].new_section
    /\ ~ProcessElderChangeState'.is_active
    /\ Scheduled("TimeoutCheckElder") \in Range(action'.our_events)

elder_change_step ==
    /\ (pending_votes # <<>> /\ ~last_vote_step)
        => /\ same_flags(is_elder_flags(action), is_elder_flags(action'))
           /\ action'.our_section = action.our_section
    /\ last_vote_step => elder_change_completes

\* C10: after CheckElder enters ProcessElderChange and votes every element of
\* get_elder_change_votes(change), no is_elder flag and no our_section field
\* changes until every one of those votes has reached consensus, in any order;
\* exactly on the last one all flag changes are applied, our_section becomes
\* new_section, the flow becomes inactive and TimeoutCheckElder is scheduled.
C10_ElderChangeCompletion == [][elder_change_step]_vars

\* the step in which ProcessElderChange applies its change and exits
completes_elder_change ==
    /\ abort' = "none"
    /\ ProcessElderChangeState.is_active
    /\ ~ProcessElderChangeState'.is_active

section_version_step ==
    /\ action'.our_section.version >= action.our_section.version
    /\ completes_elder_change
        => action'.our_section
            = SectionInfo(action.our_section.section, action.our_section.version + 1)

\* C11: each completed elder change sets our_section to the same section with
\* the version it had immediately before plus 1; our_section.version never
\* decreases and is strictly larger after every completed elder change.
C11_SectionVersionAdvances == [][section_version_step]_vars

\* an elder change has just completed and moved the section to version 1
C11_Witness ==
    /\ result = "Handled"
    /\ ~ProcessElderChangeState.is_active
    /\ action.our_section = SectionInfo(OUR_SECTION, 1)
    /\ ActionTriggered("OurSectionChanged", SectionInfo(OUR_SECTION, 1))
        \in Range(action.our_events)

\* ------------------------------------------------------------------
\* The source side: a node of ours relocated to another section
\* ------------------------------------------------------------------
\* functional_tests.rs : relocate_adult_src builds its table with
\* extend_current_nodes_with; here a seed with or without one more adult
SrcAdults == {YOUNG_ADULT_205, CANDIDATE_1, CANDIDATE_2}

InitSrc ==
    /\ InitRoutines
    /\ NoReplica
    /\ NoProofSource
    /\ NotJoining
    /\ \E extra \in {<<>>, <<CANDIDATE_1>>} :
       \E seed \in {INNER_ACTION_YOUNG_ELDERS, INNER_ACTION_OLD_ELDERS} :
            action = extend_current_nodes_with(seed, NodeState_default(OUR_NODE), extra)

\* the destination's answer for one of the adults, whether it is still a row or not
RpcRelocateResponseAdult ==
    \E node \in SrcAdults :
        Running /\ Step(Rpc("RelocateResponse",
                           get_relocated_info(node, DST_SECTION_INFO_200)))

NextSrc ==
    \/ TestSetWorkUnitEnoughToRelocate
    \/ ConsensusWorkUnitIncrement
    \/ ConsensusCheckRelocate
    \/ ConsensusRelocateResponse
    \/ ConsensusRelocatedInfo
    \/ RpcRelocateResponseAdult

SpecSrc == InitSrc /\ [][NextSrc]_vars

try_event(event) == MemberState_try_next(remove_processed_state(Member), event)

\* the event runs to its end and is Handled
handled(event) == try_event(event).m.abort = "none" /\ try_event(event).result = "Handled"

\* the state of the row of node after event, None when the row is gone
state_after(event, node) ==
    IF node.name \in RowNames(after(event))
    THEN Some(Row(after(event), node.name).state)
    ELSE None

info_for(node) == get_relocated_info(node, DST_SECTION_INFO_200)

\* the events the run is interleaved with
extra_events(node) ==
    {ParsecConsensus(ParsecVote("WorkUnitIncrement", None)),
     ParsecConsensus(ParsecVote("CheckRelocate", None)),
     Rpc("RelocateResponse", info_for(node))}

\* node is the only Online row with enough work units, is no elder, and no row
\* is relocating
only_node_to_relocate(node) ==
    /\ node.name \in RowNames(Member)
    /\ ~Row(Member, node.name).is_elder
    /\ {n \in RowNames(Member) :
            /\ Row(Member, n).state = StateOnline
            /\ Row(Member, n).work_units_done >= Row(Member, n).node.age}
        = {node.name}
    /\ \A n \in RowNames(Member) : ~is_relocating(Row(Member, n).state)

in_state(node, state) ==
    node.name \in RowNames(Member) /\ Row(Member, node.name).state = state

\* where the run stands for node, and what each event does from there
source_relocation(node) ==
    /\ \A e \in extra_events(node) : handled(e)
    /\ only_node_to_relocate(node)
        => /\ state_after(ParsecConsensus(ParsecVote("WorkUnitIncrement", None)), node)
                = Some(StateRelocatingAgeIncrease)
           /\ \A e \in extra_events(node) \
                    {ParsecConsensus(ParsecVote("WorkUnitIncrement", None))} :
                after(e).action.our_current_nodes = action.our_current_nodes
    /\ in_state(node, StateRelocatingAgeIncrease)
        => /\ \A e \in extra_events(node) :
                state_after(e, node) = Some(StateRelocatingAgeIncrease)
           /\ handled(ParsecConsensus(ParsecVote("RelocateResponse", info_for(node))))
           /\ state_after(ParsecConsensus(ParsecVote("RelocateResponse", info_for(node))),
                          node)
                = Some(StateRelocated(info_for(node)))
    /\ in_state(node, StateRelocated(info_for(node)))
        => /\ \A e \in extra_events(node) :
                state_after(e, node) = Some(StateRelocated(info_for(node)))
           /\ handled(ParsecConsensus(ParsecVote("RelocatedInfo", info_for(node))))
           /\ state_after(ParsecConsensus(ParsecVote("RelocatedInfo", info_for(node))),
                          node) = None

\* C12: from a section where non-elder n is the only Online row with
\* work_units_done >= age and no row is relocating, consensus WorkUnitIncrement,
\* CheckRelocate and RelocateResponse(info for n), in that order and interleaved
\* with any number of consensus WorkUnitIncrement, consensus CheckRelocate and
\* Rpc::RelocateResponse(info), are all Handled and leave n Relocated(info);
\* consensus RelocatedInfo(info) then removes n, and the same extra events are
\* still Handled afterwards.
C12_SourceRelocationInterleaved ==
    /\ result \in {"none", "Handled"}
    /\ Running
    /\ \A node \in SrcAdults : source_relocation(node)

\* the young adult went through Relocated(info) and has just been removed
C12_Witness ==
    /\ result = "Handled"
    /\ YOUNG_ADULT_205.name \notin RowNames(Member)
    /\ Rpc("RelocatedInfo", info_for(YOUNG_ADULT_205)) \in Range(action.our_events)
    /\ YOUNG_ADULT_205 \in DOMAIN start_relocate_src.already_relocating

\* ------------------------------------------------------------------
\* The destination side: one admission with the events around it
\* ------------------------------------------------------------------
\* functional_tests.rs : relocate_adult_dst, its required and optional events
NextAdmission ==
    \/ ConsensusExpectCandidate
    \/ ConsensusCheckResourceProof
    \/ ConsensusOnline
    \/ ConsensusCheckElder
    \/ ConsensusWorkUnitIncrement
    \/ ConsensusCheckRelocate
    \/ RpcExpectCandidate
    \/ RpcCandidateInfo
    \/ RpcConnectionInfoResponse
    \/ RpcResourceProofResponse

SpecAdmission == Init /\ [][NextAdmission]_vars

consensus_of(kind, payload) == ParsecConsensus(ParsecVote(kind, payload))

\* the optional events of relocate_adult_dst
optional_any_time(old) ==
    {consensus_of("WorkUnitIncrement", None), consensus_of("CheckRelocate", None),
     Rpc("ExpectCandidate", old)}

optional_after_expect_candidate(old, new, waiting) ==
    {Rpc("CandidateInfo", CandidateInfo(old, new, our_name(Member), waiting, TRUE)),
     Rpc("ConnectionInfoResponse", None)}

optional_after_check_resource_proof(new) ==
    {Rpc("ResourceProofResponse",
         [candidate |-> new, destination |-> our_name(Member), proof |-> "ValidPart"])}

\* the admission has not started: nobody waits, nobody is being proofed, and
\* the names the admission will use are free
admission_not_started(new) ==
    /\ count_waiting_proofing_or_hop(Member) = 0
    /\ ~has_candidate(Member)
    /\ check_shortest_prefix(Member) = None
    /\ action.next_target_interval \notin RowNames(Member)
    /\ new.name \notin RowNames(Member)

\* old has its ticket and waits in row waiting
waits_in(old, waiting) ==
    /\ waiting \in RowNames(Member)
    /\ Row(Member, waiting).state.tag = "WaitingCandidateInfo"
    /\ Row(Member, waiting).state.info[1].candidate = old

is_current_candidate(old, waiting) ==
    /\ has_candidate(Member)
    /\ candidate_of(Member) = [name |-> waiting, candidate |-> old]

\* every event of events is Handled and keeps the rows and the candidate
all_keep_stage(events) ==
    \A e \in events :
        /\ handled(e)
        /\ after(e).action.our_current_nodes = action.our_current_nodes
        /\ after(e).start_resource_proof.candidate = start_resource_proof.candidate

\* every event of events is Handled and keeps node an Online row
all_keep_online(events, node) ==
    \A e \in events : handled(e) /\ state_after(e, node) = Some(StateOnline)

\* where the admission of old as new stands, and what each event does from there
admission_run(old, new) ==
    LET waiting == action.next_target_interval
        joining_name == IF has_candidate(Member) THEN candidate_of(Member).name ELSE waiting
    IN  /\ admission_not_started(new)
            => /\ all_keep_stage(optional_any_time(old))
               /\ handled(consensus_of("ExpectCandidate", old))
               /\ after(consensus_of("ExpectCandidate", old)).action.our_current_nodes
                    = Insert(action.our_current_nodes, waiting, the_row(old))
        /\ (\E w \in RowNames(Member) : waits_in(old, w) /\ ~has_candidate(Member))
            => /\ all_keep_stage(optional_any_time(old))
               /\ handled(consensus_of("CheckResourceProof", None))
               /\ \E w \in RowNames(Member) :
                    /\ waits_in(old, w)
                    /\ after(consensus_of("CheckResourceProof", None))
                            .start_resource_proof.candidate
                        = Some([name |-> w, candidate |-> old])
        /\ (is_current_candidate(old, joining_name) /\ waits_in(old, joining_name)
                /\ new.name \notin RowNames(Member))
            => /\ all_keep_stage(optional_any_time(old) \cup
                                 optional_after_expect_candidate(old, new, joining_name))
               /\ handled(consensus_of("Online", [old |-> old, new |-> new]))
               /\ state_after(consensus_of("Online", [old |-> old, new |-> new]), new)
                    = Some(StateOnline)
        /\ in_state(new, StateOnline)
            => /\ all_keep_online({consensus_of("CheckElder", None)}, new)
               /\ all_keep_online(
                    optional_any_time(old)
                    \cup optional_after_expect_candidate(old, new, joining_name)
                    \cup optional_after_check_resource_proof(new), new)

online_votes(events) ==
    SelectSeq(votes_cast(events), LAMBDA vote : vote.kind = "Online")

proof_response(candidate, proof) ==
    Rpc("ResourceProofResponse",
        [candidate |-> candidate, destination |-> our_name(Member), proof |-> proof])

\* the response is from the current candidate, valid, and Online is not voted yet
is_accepted(candidate, proof) ==
    /\ has_candidate(Member)
    /\ start_resource_proof.candidate_info # None
    /\ candidate = start_resource_proof.candidate_info[1].new_public_id
    /\ proof \in {"ValidPart", "ValidEnd"}
    /\ ~start_resource_proof.voted_online

\* what an accepted response must journal: the Online vote on ValidEnd, and the receipt
accepted_effects(candidate, proof) ==
    (IF proof = "ValidEnd"
     THEN <<ParsecConsensus(ParsecVote("Online",
                [old |-> candidate_of(Member).candidate, new |-> candidate]))>>
     ELSE <<>>)
    \o <<Rpc("ResourceProofReceipt", [candidate |-> candidate, source |-> our_name(Member)])>>

proof_response_effects(candidate, proof) ==
    LET m == after(proof_response(candidate, proof))
    IN  /\ handled(proof_response(candidate, proof))
        /\ is_accepted(candidate, proof)
            => /\ m.action.our_events = accepted_effects(candidate, proof)
               /\ m.start_resource_proof.voted_online = (proof = "ValidEnd")
        /\ ~is_accepted(candidate, proof) => m = remove_processed_state(Member)

\* a step that handles an event votes Online at most once, only by accepting
\* ValidEnd, and the vote is remembered for as long as a candidate is held
online_vote_step ==
    /\ Len(online_votes(action'.our_events)) <= 1
    /\ (abort' = "none" /\ online_votes(action'.our_events) # <<>>)
        => /\ has_candidate(Member)
           /\ ~start_resource_proof.voted_online
           /\ start_resource_proof'.voted_online
           /\ start_resource_proof'.candidate = start_resource_proof.candidate
           /\ start_resource_proof.candidate_info # None
           /\ action'.our_events
                = accepted_effects(start_resource_proof.candidate_info[1].new_public_id,
                                   "ValidEnd")
    /\ (start_resource_proof.voted_online /\ start_resource_proof'.candidate # None)
        => start_resource_proof'.voted_online
    /\ \A old \in Candidates : \A new \in NewPublicIds(old) :
       \A proof \in {"ValidPart", "ValidEnd", "Invalid"} :
            Running => proof_response_effects(new, proof)

ignores_proof_of(m, candidate) ==
    \A proof \in {"ValidPart", "ValidEnd", "Invalid"} :
        MemberState_try_next(remove_processed_state(m),
            Rpc("ResourceProofResponse",
                [candidate |-> candidate, destination |-> our_name(m), proof |-> proof]))
        = Handled(remove_processed_state(m))

\* a run long enough for a candidate to be expected again after it was made a
\* member
ReadmissionConsensusExpectCandidate ==
    Running /\ StepWithin(ParsecConsensus(ParsecVote("ExpectCandidate", CANDIDATE_1_OLD)),
                          MaxReadmissions)

ReadmissionConsensusCheckResourceProof ==
    Running /\ StepWithin(ParsecConsensus(ParsecVote("CheckResourceProof", None)),
                          MaxReadmissions)

ReadmissionConsensusOnline ==
    \E new \in NewPublicIds(CANDIDATE_1_OLD) :
        Running /\ StepWithin(ParsecConsensus(ParsecVote("Online",
                                [old |-> CANDIDATE_1_OLD, new |-> new])),
                              MaxReadmissions)

ReadmissionRpcCandidateInfo ==
    \E new \in NewPublicIds(CANDIDATE_1_OLD) : \E waiting \in WaitingNodes :
        Running /\ StepWithin(Rpc("CandidateInfo",
                                CandidateInfo(CANDIDATE_1_OLD, new, our_name(Member),
                                              waiting.name, TRUE)),
                              MaxReadmissions)

ReadmissionRpcResourceProofResponse ==
    \E new \in NewPublicIds(CANDIDATE_1_OLD) :
    \E proof \in {"ValidPart", "ValidEnd", "Invalid"} :
        Running /\ StepWithin(Rpc("ResourceProofResponse",
                                [candidate |-> new, destination |-> our_name(Member),
                                 proof |-> proof]),
                              MaxReadmissions)

NextReadmission ==
    \/ ReadmissionConsensusExpectCandidate
    \/ ReadmissionConsensusCheckResourceProof
    \/ ReadmissionConsensusOnline
    \/ ReadmissionRpcCandidateInfo
    \/ ReadmissionRpcResourceProofResponse

SpecReadmission == InitOldElders /\ [][NextReadmission]_vars

not_current_candidate(old) ==
    ~(has_candidate(Member) /\ candidate_of(Member).candidate = old)

\* the event is Handled with nothing journaled and the node table, our_section
\* and the StartResourceProof sub-state as they were
absorbed(event) ==
    /\ handled(event)
    /\ after(event).action.our_events = <<>>
    /\ after(event).action.our_current_nodes = action.our_current_nodes
    /\ after(event).action.our_section = action.our_section
    /\ after(event).start_resource_proof = start_resource_proof

\* C16: a consensus of Online(old, new) or PurgeCandidate(old) whose old is not
\* the current resource-proof candidate (or when there is no current candidate)
\* returns Handled, appends nothing to the journal and leaves the node table,
\* our_section and the StartResourceProof sub-state unchanged.
C16_StaleConsensusAbsorbed ==
    Running =>
        \A old \in Candidates :
            not_current_candidate(old) =>
                /\ absorbed(ParsecConsensus(ParsecVote("PurgeCandidate", old)))
                /\ \A new \in NewPublicIds(old) :
                      absorbed(ParsecConsensus(ParsecVote("Online",
                                    [old |-> old, new |-> new])))

\* CANDIDATE_1_OLD still waits in its row although a consensus of Online or
\* PurgeCandidate about it was processed when it was not the current candidate
C16_Witness ==
    /\ result = "Handled"
    /\ action.our_events = <<>>
    /\ ~has_candidate(Member)
    /\ ticket[CANDIDATE_1_OLD] = None
    /\ \E node \in WaitingNodes :
          /\ waiting_candidate_info(Row(Member, node.name).state) # None
          /\ waiting_candidate_info(Row(Member, node.name).state)[1].candidate
                = CANDIDATE_1_OLD

\* ------------------------------------------------------------------
\* Elder votes nobody waits for
\* ------------------------------------------------------------------
\* the NewSectionInfo votes a merge with a stored sibling info can have cast
merge_votes ==
    {ParsecVote("NewSectionInfo",
                SectionInfo(action.our_section.section + info.section + 1, 0)) :
        info \in {i \in {OTHER_SECTION_INFO, REMOTE_OTHER_SECTION_INFO} :
                    Abs(action.our_section.section - i.section) = 1}}

\* an active sub-flow has voted for this vote and has not seen it yet
awaited(vote) ==
    LET flows == start_merge_split_and_change_elders
    IN  \/ flows.sub_routine_process_split.is_active
            /\ contains(flows.sub_routine_process_split.wait_votes, vote)
        \/ flows.sub_routine_process_merge_active /\ vote \in merge_votes
        \/ flows.sub_routine_process_elder_change.is_active
            /\ contains(flows.sub_routine_process_elder_change.wait_votes, vote)

\* the elder votes that may reach consensus
elder_votes ==
    {ParsecVote("AddElderNode", node) : node \in RowNodes}
    \cup {ParsecVote("RemoveElderNode", node) : node \in RowNodes}
    \cup {ParsecVote("NewSectionInfo", info) : info \in SectionInfos}

\* the vote is Handled with the one sentinel journaled; elder flags, our_section
\* and the votes ProcessElderChange waits for are as before
reported_unexpected(vote) ==
    LET m == after(ParsecConsensus(vote))
    IN  /\ handled(ParsecConsensus(vote))
        /\ m.action.our_events = <<ActionTriggered("UnexpectedEventErrorTriggered", None)>>
        /\ is_elder_flags(m.action) = is_elder_flags(action)
        /\ m.action.our_section = action.our_section
        /\ m.start_merge_split_and_change_elders.sub_routine_process_elder_change
            = start_merge_split_and_change_elders.sub_routine_process_elder_change

\* C17: a consensus of AddElderNode, RemoveElderNode or NewSectionInfo that no
\* active sub-flow is waiting for returns Handled, appends exactly one
\* ActionTriggered::UnexpectedEventErrorTriggered, and changes neither the elder
\* flags, our_section nor the wait_votes of an active ProcessElderChange.
C17_UnexpectedElderVote ==
    Running => \A vote \in elder_votes : ~awaited(vote) => reported_unexpected(vote)

\* ------------------------------------------------------------------
\* ProofSource: the parts of a resource proof
\* ------------------------------------------------------------------
\* resend that never comes to the end of the proof
ProofSource_resend_never_end(counter) ==
    IF counter >= 0 THEN Some("ValidPart") ELSE None

\* utilities.rs : ProofSource::resend
ProofSource_resend(counter) ==
    IF counter > 0 THEN Some("ValidPart")
    ELSE IF counter = 0 THEN Some("ValidEnd")
    ELSE None

\* next_part that reads the part before it decrements the counter
ProofSource_next_part_read_first(counter) ==
    [proof_source |-> IF counter > -1 THEN counter - 1 ELSE counter,
     part |-> ProofSource_resend(counter)]

\* utilities.rs : ProofSource::next_part
ProofSource_next_part(counter) ==
    LET decremented == IF counter > -1 THEN counter - 1 ELSE counter
    IN  [proof_source |-> decremented, part |-> ProofSource_resend(decremented)]

InitProofSource ==
    /\ action = INNER_ACTION_OLD_ELDERS
    /\ InitRoutines
    /\ NoReplica
    /\ NotJoining
    /\ proof_seed \in 0..MaxProofCounter
    /\ proof_source = proof_seed
    /\ proof_calls = <<>>

NextPart ==
    /\ Len(proof_calls) < MaxProofCalls
    /\ proof_source' = ProofSource_next_part(proof_source).proof_source
    /\ proof_calls' = Append(proof_calls,
            [call |-> "next_part", part |-> ProofSource_next_part(proof_source).part])
    /\ UNCHANGED <<proof_seed, member_vars, joining_vars, replay_vars, relay_vars>>

Resend ==
    /\ Len(proof_calls) < MaxProofCalls
    /\ proof_calls' = Append(proof_calls,
            [call |-> "resend", part |-> ProofSource_resend(proof_source)])
    /\ UNCHANGED <<proof_seed, proof_source, member_vars, joining_vars, replay_vars,
                   relay_vars>>

NextProofSource == NextPart \/ Resend

SpecProofSource == InitProofSource /\ [][NextProofSource]_vars

\* what the calls of next_part returned, in order
parts_yielded ==
    LET next_parts == SelectSeq(proof_calls, LAMBDA c : c.call = "next_part")
    IN  [i \in 1..Len(next_parts) |-> next_parts[i].part]

\* C18 as stated: ProofSource(k) yields k ValidPart, then one ValidEnd, then
\* None forever (each call reads the part from the counter, then decrements).
C18_ProofStream ==
    \A n \in 1..Len(parts_yielded) :
        parts_yielded[n] = IF n <= proof_seed THEN Some("ValidPart")
                           ELSE IF n = proof_seed + 1 THEN Some("ValidEnd")
                           ELSE None

\* C18 (amended): each call of next_part first decrements the counter when it
\* is above -1 and then returns ValidPart if the counter is now above 0,
\* ValidEnd if it is 0 and None if it is below 0; so ProofSource(k) yields
\* k - 1 ValidPart, then one ValidEnd, then None forever when k >= 1, and None
\* from the first call when k = 0.
C18_ProofStreamDecrementFirst ==
    /\ \A n \in 1..Len(parts_yielded) :
            parts_yielded[n] = IF n < proof_seed THEN Some("ValidPart")
                               ELSE IF n = proof_seed THEN Some("ValidEnd")
                               ELSE None
    /\ proof_source = IF Len(parts_yielded) <= proof_seed
                      THEN proof_seed - Len(parts_yielded)
                      ELSE -1

\* a ProofSource made with a counter above 1 was read to its end and beyond
C18_Witness ==
    /\ proof_seed > 1
    /\ Len(parts_yielded) = proof_seed + 1
    /\ parts_yielded[proof_seed - 1] = Some("ValidPart")
    /\ parts_yielded[proof_seed] = Some("ValidEnd")
    /\ parts_yielded[proof_seed + 1] = None

\* ------------------------------------------------------------------
\* JoiningState: a relocated candidate joining its destination section
\* ------------------------------------------------------------------
NODE_ELDER_111 == Attributes(11, 111)
OUR_NODE_OLD == Attributes(31, 132)
OUR_NODE_CANDIDATE == OUR_NODE
OUR_NODE_CANDIDATE_OLD == OUR_NODE_OLD
GenesisPfxInfo(section_info) == section_info

CANDIDATE_RELOCATED_INFO_132 ==
    RelocatedInfo(OUR_NODE_CANDIDATE_OLD, OUR_NODE.age, TARGET_INTERVAL_1,
                  DST_SECTION_INFO_200)

\* scenario_tests.rs : INNER_ACTION_WITH_DST_SECTION_200, the fields a joining
\* node uses
INNER_ACTION_WITH_DST_SECTION_200 ==
    [our_events |-> <<>>,
     our_attributes |-> OUR_NODE,
     section_members |->
        [info \in {DST_SECTION_INFO_200} |->
            <<NODE_ELDER_109, NODE_ELDER_110, NODE_ELDER_111>>],
     connected |-> {},
     resource_proofs_for_elder |-> [name \in {} |-> 0]]

JoiningRelocateCandidateState_default ==
    [relocated_info |-> None, connected |-> FALSE, need_resend_proofs |-> {},
     routine_complete_output |-> None]

\* actions.rs : process_test_events, TestEvent::SetResourceProof
set_resource_proof(j, name, proof) ==
    [j EXCEPT !.action.resource_proofs_for_elder =
        [n \in DOMAIN @ \cup {name} |-> IF n = name THEN proof ELSE @[n]]]

get_section_elders(j, info) ==
    IF info \in DOMAIN j.action.section_members
    THEN [j |-> j, elders |-> j.action.section_members[info]]
    ELSE [j |-> Panic(j, "get_section_elders"), elders |-> <<>>]

get_connected_and_unconnected(j, info) ==
    LET found == get_section_elders(j, info.section_info)
        names == [i \in 1..Len(found.elders) |-> found.elders[i].name]
    IN  [j |-> found.j,
         connected |-> SelectSeq(names, LAMBDA name : name \in j.action.connected),
         unconnected |-> SelectSeq(names, LAMBDA name : name \notin j.action.connected)]

get_next_resource_proof_part(j, source) ==
    IF source \in DOMAIN j.action.resource_proofs_for_elder
    THEN LET next == ProofSource_next_part(j.action.resource_proofs_for_elder[source])
         IN  [j |-> [j EXCEPT !.action.resource_proofs_for_elder[source] =
                        next.proof_source],
              part |-> next.part]
    ELSE [j |-> j, part |-> None]

send_connection_info_request(j, destination) ==
    send_rpc(j, Rpc("ConnectionInfoRequest",
                    [source |-> our_name(j), destination |-> destination,
                     connection_info |-> our_name(j)]))

send_candidate_info(j, destination, relocated_info) ==
    send_rpc([j EXCEPT !.action.connected = @ \cup {destination}],
             Rpc("CandidateInfo",
                 CandidateInfo(relocated_info.candidate, j.action.our_attributes,
                               destination, relocated_info.target_interval_centre,
                               TRUE)))

send_resource_proof_response(j, destination, proof) ==
    send_rpc(j, Rpc("ResourceProofResponse",
                    [candidate |-> j.action.our_attributes,
                     destination |-> destination, proof |-> proof]))

start_compute_resource_proof(j, source) ==
    action_triggered(j, ActionTriggered("ComputeResourceProofForElder", source))

RECURSIVE send_connection_info_requests(_, _)
send_connection_info_requests(j, names) ==
    IF names = <<>> THEN j
    ELSE send_connection_info_requests(
            send_connection_info_request(j, Head(names)), Tail(names))

RECURSIVE send_candidate_infos(_, _, _)
send_candidate_infos(j, names, relocated_info) ==
    IF names = <<>> THEN j
    ELSE send_candidate_infos(
            send_candidate_info(j, Head(names), relocated_info), Tail(names),
            relocated_info)

\* a ConnectionInfoRequest to each elder not yet connected, the CandidateInfo
\* to each connected one
connect_or_send_candidate_info(j) ==
    IF j.join_routine.relocated_info = None
    THEN Panic(j, "JoiningRelocateCandidate::relocated_info")
    ELSE LET info == j.join_routine.relocated_info[1]
             found == get_connected_and_unconnected(j, info)
         IN  send_candidate_infos(
                send_connection_info_requests(found.j, found.unconnected),
                found.connected, info)

send_next_proof_response(j, source) ==
    LET next == get_next_resource_proof_part(j, source)
    IN  IF next.part = None THEN next.j
        ELSE send_resource_proof_response(next.j, source, next.part[1])

JoiningRelocateCandidate_start_event_loop(j, relocated_info) ==
    schedule_event(
        schedule_event(
            connect_or_send_candidate_info(
                [j EXCEPT !.join_routine.relocated_info = Some(relocated_info)]),
            "JoiningTimeoutResendInfo"),
        "JoiningTimeoutProofRefused")

JoiningRelocateCandidate_exit(j, info) ==
    [j EXCEPT !.join_routine.routine_complete_output = Some(info)]

\* utilities.rs : Rpc::destination, for the RPCs a joining node is sent
rpc_destination(rpc) ==
    CASE rpc.kind \in {"NodeApproval", "NodeConnected"} -> Some(rpc.payload.candidate.name)
      [] rpc.kind \in {"ResourceProof", "ResourceProofReceipt"} ->
            Some(rpc.payload.candidate.name)
      [] rpc.kind \in {"ConnectionInfoRequest", "ConnectionInfoResponse",
                       "ResourceProofResponse", "CandidateInfo"} ->
            Some(rpc.payload.destination)
      [] OTHER -> None

JoiningRelocateCandidate_try_rpc(j, rpc) ==
    IF rpc_destination(rpc) # Some(our_name(j)) THEN Unhandled(j)
    ELSE CASE rpc.kind = "NodeApproval" ->
                Handled(JoiningRelocateCandidate_exit(j, rpc.payload.info))
           [] rpc.kind = "ConnectionInfoResponse" ->
                IF j.join_routine.relocated_info = None
                THEN Handled(Panic(j, "JoiningRelocateCandidate::relocated_info"))
                ELSE Handled(send_candidate_info(j, rpc.payload.source,
                                j.join_routine.relocated_info[1]))
           [] rpc.kind = "ResourceProof" ->
                Handled(start_compute_resource_proof(j, rpc.payload.source))
           [] rpc.kind = "ResourceProofReceipt" ->
                Handled(send_next_proof_response(j, rpc.payload.source))
           [] OTHER -> Unhandled(j)

JoiningRelocateCandidate_try_local_event(j, local_event) ==
    CASE local_event.kind = "ResourceProofForElderReady" ->
            Handled(send_next_proof_response(j, local_event.payload))
      [] local_event.kind = "JoiningTimeoutResendInfo" ->
            Handled(schedule_event(connect_or_send_candidate_info(j),
                                   "JoiningTimeoutResendInfo"))
      [] OTHER -> Unhandled(j)

\* whatever the handlers make of the event, it is Handled: the rest is discarded
JoiningRelocateCandidate_try_next(j, event) ==
    LET tried == CASE event.kind = "Rpc" ->
                        JoiningRelocateCandidate_try_rpc(j, event.payload)
                   [] event.kind = "LocalEvent" ->
                        JoiningRelocateCandidate_try_local_event(j, event.payload)
                   [] OTHER -> Unhandled(j)
    IN  Handled(tried.m)

\* state.rs : JoiningState::start
JoiningState_start(j, relocated_info) ==
    JoiningRelocateCandidate_start_event_loop(j, relocated_info)

\* state.rs : JoiningState::try_next
JoiningState_try_next(j, event) ==
    IF event.kind = "TestEvent"
    THEN IF event.payload.kind = "SetResourceProof"
         THEN Handled(set_resource_proof(j, event.payload.payload.name,
                                         event.payload.payload.proof))
         ELSE Handled(j)
    ELSE JoiningRelocateCandidate_try_next(j, event)

\* scenario_tests.rs : the JoiningState the joining tests start from
JoiningState_initial ==
    [action |-> INNER_ACTION_WITH_DST_SECTION_200,
     join_routine |-> JoiningRelocateCandidateState_default,
     abort |-> "none"]

\* the elders that seed a ProofSource for us, and the seed of the tests
ProofElders == {NODE_ELDER_109.name, NODE_ELDER_110.name}
JoiningProofSeed == 2
DstElders == {NODE_ELDER_109.name, NODE_ELDER_110.name, NODE_ELDER_111.name}
Geneses == {GenesisPfxInfo(DST_SECTION_INFO_200), GenesisPfxInfo(SectionInfo(DST_SECTION_200, 1))}

InitJoining ==
    /\ action = INNER_ACTION_OLD_ELDERS
    /\ InitRoutines
    /\ NoReplica
    /\ NoProofSource
    /\ joining = Some(JoiningState_initial)
    /\ joining_result = "none"

Joined == joining # None /\ joining[1].abort = "none"

\* the harness starts the routine once, before it feeds events
JoiningStarted == Joined /\ joining[1].join_routine.relocated_info # None

JoiningStart ==
    /\ Joined
    /\ ~JoiningStarted
    /\ joining' = Some(JoiningState_start(remove_processed_state(joining[1]),
                                          CANDIDATE_RELOCATED_INFO_132))
    /\ joining_result' = "none"
    /\ replica' = IF replica = None THEN None
                  ELSE Some([m |-> JoiningState_start(
                                      remove_processed_state(replica[1].m),
                                      CANDIDATE_RELOCATED_INFO_132),
                             result |-> "none"])
    /\ UNCHANGED <<member_vars, proof_vars, relay_vars>>

joining_replayed(event) ==
    IF replica = None THEN None
    ELSE Some(JoiningState_try_next(remove_processed_state(replica[1].m), event))

JoiningStep(event) ==
    LET tried == JoiningState_try_next(remove_processed_state(joining[1]), event)
    IN  /\ joining' = Some(tried.m)
        /\ joining_result' = tried.result
        /\ replica' = joining_replayed(event)
        /\ relay' = joining_relayed(event, tried.m)
        /\ UNCHANGED elder_timer
        /\ UNCHANGED <<member_vars, proof_vars>>

NodeApprovalFor(candidate, genesis) ==
    Rpc("NodeApproval", [candidate |-> candidate, info |-> genesis])

JoiningRpcNodeApproval ==
    JoiningStarted /\ \E genesis \in Geneses : JoiningStep(NodeApprovalFor(OUR_NODE_CANDIDATE, genesis))

JoiningRpcNodeApprovalOther ==
    JoiningStarted /\ JoiningStep(NodeApprovalFor(CANDIDATE_1, GenesisPfxInfo(DST_SECTION_INFO_200)))

JoiningRpcConnectionInfoResponse ==
    JoiningStarted /\ \E source \in DstElders :
        JoiningStep(Rpc("ConnectionInfoResponse",
                        [source |-> source,
                         destination |-> our_name(joining[1]),
                         connection_info |-> source]))

JoiningRpcResourceProof ==
    JoiningStarted /\ \E source \in ProofElders :
        JoiningStep(Rpc("ResourceProof",
                        [candidate |-> OUR_NODE_CANDIDATE, source |-> source,
                         proof |-> source]))

JoiningRpcResourceProofReceipt ==
    JoiningStarted /\ \E source \in ProofElders :
        JoiningStep(Rpc("ResourceProofReceipt",
                        [candidate |-> OUR_NODE_CANDIDATE, source |-> source]))

JoiningResourceProofForElderReady ==
    JoiningStarted /\ \E source \in ProofElders :
        JoiningStep(LocalEvent("ResourceProofForElderReady", source))

JoiningTimeoutResendInfo ==
    JoiningStarted /\ JoiningStep(LocalEvent("JoiningTimeoutResendInfo", None))

JoiningTimeoutProofRefused ==
    JoiningStarted /\ JoiningStep(LocalEvent("JoiningTimeoutProofRefused", None))

JoiningSetResourceProof ==
    JoiningStarted /\ \E name \in ProofElders :
        /\ name \notin DOMAIN joining[1].action.resource_proofs_for_elder
        /\ JoiningStep(TestEvent("SetResourceProof",
                                 [name |-> name, proof |-> JoiningProofSeed]))

NextJoining ==
    \/ JoiningStart
    \/ JoiningRpcNodeApproval
    \/ JoiningRpcNodeApprovalOther
    \/ JoiningRpcConnectionInfoResponse
    \/ JoiningRpcResourceProof
    \/ JoiningRpcResourceProofReceipt
    \/ JoiningResourceProofForElderReady
    \/ JoiningTimeoutResendInfo
    \/ JoiningTimeoutProofRefused
    \/ JoiningSetResourceProof

SpecJoining == InitJoining /\ [][NextJoining]_vars

\* the events a started JoiningState is fed, one list per kind of event
approval_events ==
    <<NodeApprovalFor(OUR_NODE_CANDIDATE, GenesisPfxInfo(DST_SECTION_INFO_200)),
      NodeApprovalFor(OUR_NODE_CANDIDATE, GenesisPfxInfo(SectionInfo(DST_SECTION_200, 1))),
      NodeApprovalFor(CANDIDATE_1, GenesisPfxInfo(DST_SECTION_INFO_200))>>

connection_events ==
    [i \in 1..3 |->
        Rpc("ConnectionInfoResponse",
            [source |-> INNER_ACTION_WITH_DST_SECTION_200
                            .section_members[DST_SECTION_INFO_200][i].name,
             destination |-> OUR_NODE_CANDIDATE.name,
             connection_info |-> 0])]

proof_events(source) ==
    <<Rpc("ResourceProof",
          [candidate |-> OUR_NODE_CANDIDATE, source |-> source, proof |-> source]),
      Rpc("ResourceProofReceipt", [candidate |-> OUR_NODE_CANDIDATE, source |-> source]),
      LocalEvent("ResourceProofForElderReady", source),
      TestEvent("SetResourceProof", [name |-> source, proof |-> JoiningProofSeed])>>

timeout_events ==
    <<LocalEvent("JoiningTimeoutResendInfo", None),
      LocalEvent("JoiningTimeoutProofRefused", None)>>

joining_events ==
    approval_events \o connection_events \o proof_events(NODE_ELDER_109.name)
        \o proof_events(NODE_ELDER_110.name) \o timeout_events

joining_after(event) ==
    JoiningState_try_next(remove_processed_state(joining[1]), event).m

is_our_approval(event) ==
    /\ event.kind = "Rpc"
    /\ event.payload.kind = "NodeApproval"
    /\ event.payload.payload.candidate.name = our_name(joining[1])

approved_with(event) ==
    /\ joining_after(event).join_routine.routine_complete_output =
            Some(event.payload.payload.info)
    /\ joining_after(event).action.our_events = <<>>

joining_complete == joining[1].join_routine.routine_complete_output # None

\* C19: a JoiningState that processes Rpc::NodeApproval(us, genesis) stores
\* Some(genesis) in routine_complete_output and journals nothing, and from
\* then on every event leaves routine_complete_output, the journal and the
\* rest of the joining state as they were.
C19_JoiningTerminal ==
    JoiningStarted =>
        \A i \in 1..Len(joining_events) :
            /\ is_our_approval(joining_events[i]) => approved_with(joining_events[i])
            /\ joining_complete =>
                    joining_after(joining_events[i]) =
                        remove_processed_state(joining[1])

\* ------------------------------------------------------------------
\* MemberState::try_next: the order of the sub-machines
\* ------------------------------------------------------------------
\* the waited events the member is fed, by the kind of their payload
node_events ==
    UNION {{consensus_of("ExpectCandidate", c), consensus_of("PurgeCandidate", c),
            Rpc("ExpectCandidate", c)} : c \in Candidates}
    \cup UNION {{consensus_of("Offline", node), consensus_of("BackOnline", node),
                 LocalEvent("NodeDetectedOffline", node),
                 LocalEvent("NodeDetectedBackOnline", node)} : node \in OfflineNodes}
    \cup UNION {{consensus_of("RefuseCandidate", node), Rpc("RefuseCandidate", node)} :
                    node \in RowNodes}
    \cup UNION {{consensus_of("AddElderNode", node),
                 consensus_of("RemoveElderNode", node)} : node \in ElderVoteNodes}

section_events ==
    {consensus_of("NewSectionInfo", info) : info \in SectionInfos}
    \cup UNION {{consensus_of("NeighbourMerge", info), Rpc("Merge", info)} :
                    info \in {OTHER_SECTION_INFO, REMOTE_OTHER_SECTION_INFO}}

relocation_events ==
    UNION {{consensus_of("RelocateResponse",
                         get_relocated_info(node, DST_SECTION_INFO_200)),
            Rpc("RelocateResponse", get_relocated_info(node, DST_SECTION_INFO_200))} :
                node \in RelocatingNodes}
    \cup {consensus_of("RelocatedInfo",
                       action.our_current_nodes[node.name].state.info[1]) :
            node \in RelocatedNodes}

admission_events ==
    UNION {{consensus_of("Online", [old |-> old, new |-> new]) :
                new \in NewPublicIds(old)} : old \in Candidates}

info_events ==
    UNION {{Rpc("CandidateInfo",
                CandidateInfo(old, new, our_name(Member), waiting.name, TRUE)) :
                new \in NewPublicIds(old), waiting \in WaitingNodes} :
            old \in Candidates}

proof_response_events ==
    UNION {{Rpc("ResourceProofResponse",
                [candidate |-> new, destination |-> our_name(Member),
                 proof |-> proof]) :
                new \in NewPublicIds(old), proof \in {"ValidPart", "ValidEnd", "Invalid"}} :
            old \in Candidates}

plain_events ==
    {consensus_of("CheckResourceProof", None), consensus_of("WorkUnitIncrement", None),
     consensus_of("CheckRelocate", None), consensus_of("CheckElder", None),
     Rpc("ConnectionInfoResponse", None),
     LocalEvent("TimeoutAccept", None), LocalEvent("CheckResourceProofTimeout", None),
     LocalEvent("TimeoutWorkUnit", None), LocalEvent("TimeoutCheckRelocate", None),
     LocalEvent("TimeoutCheckElder", None)}

\* the sub-machines in the order they are to be offered an event
sub_machines ==
    <<"CheckOnlineOffline", "ProcessSplit", "ProcessMerge", "ProcessElderChange",
      "StartMergeSplitAndChangeElders", "StartRelocateSrc",
      "StartDecidesOnNodeToRelocate", "StartResourceProof",
      "RespondToRelocateRequests">>

\* the sub-machines that are offered the event and return Handled for it
handlers(m, event) ==
    {i \in 1..Len(sub_machines) :
        /\ routine_offered(m, sub_machines[i])
        /\ routine_try_next(m, event, sub_machines[i]).result = "Handled"}

first_handler(m, event) ==
    CHOOSE i \in handlers(m, event) : \A k \in handlers(m, event) : i <= k

\* the sub-machines that are offered the event before one handles it
declining(m, event) ==
    {i \in 1..Len(sub_machines) :
        /\ routine_offered(m, sub_machines[i])
        /\ \A k \in handlers(m, event) : i < k}

\* the step is the step of the first handler alone, or of the final match when
\* there is none; the sub-machines before it leave the member as it is
dispatched(event) ==
    LET m == remove_processed_state(Member)
    IN  /\ \A i \in declining(m, event) :
              routine_try_next(m, event, sub_machines[i]).m = m
        /\ IF handlers(m, event) = {}
           THEN try_event(event) = unhandled_by_routines(m, event, Unhandled(m))
           ELSE try_event(event) =
                    routine_try_next(m, event, sub_machines[first_handler(m, event)])

\* C20: MemberState::try_next offers a waited event to CheckOnlineOffline,
\* ProcessSplit, ProcessMerge, ProcessElderChange (these three only when
\* active), StartMergeSplitAndChangeElders, StartRelocateSrc,
\* StartDecidesOnNodeToRelocate, StartResourceProof and
\* RespondToRelocateRequests in this order; the step has exactly the effects of
\* the first of them that returns Handled, and none before it changes the state
\* or the journal.
C20_DispatchDiscipline ==
    Running =>
        /\ \A event \in node_events : dispatched(event)
        /\ \A event \in section_events : dispatched(event)
        /\ \A event \in relocation_events : dispatched(event)
        /\ \A event \in admission_events : dispatched(event)
        /\ \A event \in info_events : dispatched(event)
        /\ \A event \in proof_response_events : dispatched(event)
        /\ \A event \in plain_events : dispatched(event)

\* a vote the active ProcessElderChange waits for has been handled, and the
\* next CheckElder passes CheckOnlineOffline and the active sub-flow before
\* StartMergeSplitAndChangeElders handles it
C20_Witness ==
    /\ Running
    /\ result = "Handled"
    /\ start_merge_split_and_change_elders.sub_routine_process_elder_change.is_active
    /\ handlers(remove_processed_state(Member), consensus_of("CheckElder", None)) # {}
    /\ first_handler(remove_processed_state(Member), consensus_of("CheckElder", None)) = 5
    /\ 4 \in declining(remove_processed_state(Member), consensus_of("CheckElder", None))

\* ------------------------------------------------------------------
\* Two copies of a state fed the same events
\* ------------------------------------------------------------------
\* a member with its copy, or a joining node with its copy
InitReplay ==
    /\ action = INNER_ACTION_OLD_ELDERS
    /\ InitRoutines
    /\ NoProofSource
    /\ \/ /\ NotJoining
          /\ replica = Some([m |-> Member, result |-> "none"])
       \/ /\ joining = Some(JoiningState_initial)
          /\ joining_result = "none"
          /\ replica = Some([m |-> JoiningState_initial, result |-> "none"])

MemberReplayed == joining = None /\ replica # None

ReplayConsensusExpectCandidate == MemberReplayed /\ ConsensusExpectCandidate
ReplayConsensusCheckResourceProof == MemberReplayed /\ ConsensusCheckResourceProof
ReplayConsensusOnline == MemberReplayed /\ ConsensusOnline
ReplayConsensusCheckElder == MemberReplayed /\ ConsensusCheckElder
ReplayConsensusWorkUnitIncrement == MemberReplayed /\ ConsensusWorkUnitIncrement
ReplayConsensusCheckRelocate == MemberReplayed /\ ConsensusCheckRelocate
ReplayRpcExpectCandidate == MemberReplayed /\ RpcExpectCandidate
ReplayRpcCandidateInfo == MemberReplayed /\ RpcCandidateInfo
ReplayRpcConnectionInfoResponse == MemberReplayed /\ RpcConnectionInfoResponse
ReplayRpcResourceProofResponse == MemberReplayed /\ RpcResourceProofResponse

NextReplay ==
    \/ ReplayConsensusExpectCandidate
    \/ ReplayConsensusCheckResourceProof
    \/ ReplayConsensusOnline
    \/ ReplayConsensusCheckElder
    \/ ReplayConsensusWorkUnitIncrement
    \/ ReplayConsensusCheckRelocate
    \/ ReplayRpcExpectCandidate
    \/ ReplayRpcCandidateInfo
    \/ ReplayRpcConnectionInfoResponse
    \/ ReplayRpcResourceProofResponse
    \/ NextJoining

SpecReplay == InitReplay /\ [][NextReplay]_vars

NextRelocate ==
    \/ TestSetWorkUnitEnoughToRelocate
    \/ ConsensusWorkUnitIncrement
    \/ ConsensusCheckRelocate
    \/ ConsensusRefuseCandidate

\* scenario_tests.rs : the table of
\* parsec_check_relocate_trigger_again_with_relocating_hop_and_back_online, with
\* none, one or two of its relocating rows
RelocatingSeeds ==
    {INNER_ACTION_OLD_ELDERS,
     extend_current_nodes_with(INNER_ACTION_OLD_ELDERS,
        NodeState(OUR_NODE, 0, FALSE, StateRelocatingHop), <<CANDIDATE_1_OLD>>),
     extend_current_nodes_with(
        extend_current_nodes_with(INNER_ACTION_OLD_ELDERS,
            NodeState(OUR_NODE, 0, FALSE, StateRelocatingHop), <<CANDIDATE_1_OLD>>),
        NodeState(OUR_NODE, 0, FALSE, StateRelocatingBackOnline), <<CANDIDATE_2>>)}

InitRelocate ==
    /\ action \in RelocatingSeeds
    /\ InitRoutines
    /\ NoReplica
    /\ NoProofSource
    /\ NotJoining

SpecRelocate == InitRelocate /\ [][NextRelocate]_vars

check_relocate == consensus_of("CheckRelocate", None)

\* the nodes offered by the next consensus of CheckRelocate
offered_next == expect_candidates_sent(after(check_relocate).action.our_events)

counters_in_range ==
    \A c \in DOMAIN start_relocate_src.already_relocating :
        start_relocate_src.already_relocating[c] \in {1, 2}

\* C22: after ExpectCandidate(c) was sent on a consensus of CheckRelocate, and
\* while c stays a relocating non-elder that is not refused, the next two
\* consensuses of CheckRelocate send no ExpectCandidate(c) and the third sends
\* it again; the counters kept in already_relocating between events are 1 or 2.
C22_ResendThrottle ==
    Running =>
        /\ \A c \in DOMAIN throttle :
              /\ throttle[c] \in {1, 2} => c \notin offered_next
              /\ throttle[c] = 3 => c \in offered_next
        /\ counters_in_range

\* the selection key of actions.rs, component by component, true above false
selection_above(r, q) ==
    LET a(x) == Bool(x.state = StateRelocatingAgeIncrease)
        h(x) == Bool(x.state = StateRelocatingHop)
        b(x) == Bool(x.state = StateRelocatingBackOnline)
    IN  \/ a(r) > a(q)
        \/ a(r) = a(q) /\ h(r) > h(q)
        \/ a(r) = a(q) /\ h(r) = h(q) /\ b(r) > b(q)
        \/ a(r) = a(q) /\ h(r) = h(q) /\ b(r) = b(q) /\ r.node.age > q.node.age
        \/ a(r) = a(q) /\ h(r) = h(q) /\ b(r) = b(q) /\ r.node.age = q.node.age
              /\ r.node.name > q.node.name

\* the relocating non-elder rows that are not keys of tracked
eligible_rows(m, tracked) ==
    {n \in RowNames(m) :
        /\ is_relocating(Row(m, n).state)
        /\ ~Row(m, n).is_elder
        /\ Row(m, n).node \notin tracked}

outranked(c) ==
    \E n \in eligible_rows(Member, DOMAIN start_relocate_src.already_relocating) :
        /\ Row(Member, n).node # c
        /\ selection_above(Row(Member, n), Row(Member, c.name))

\* C22 (amended): after ExpectCandidate(c) was sent on a consensus of
\* CheckRelocate, and while c stays a relocating non-elder that is not refused,
\* the next two consensuses of CheckRelocate send no ExpectCandidate(c); a later
\* one sends it again exactly when no other relocating non-elder outside
\* already_relocating ranks above c; the counters kept between events are 1 or 2.
C22_ResendThrottleUnlessOutranked ==
    Running =>
        /\ \A c \in DOMAIN throttle :
              /\ throttle[c] \in {1, 2} => c \notin offered_next
              /\ throttle[c] = 3 => (c \in offered_next <=> ~outranked(c))
        /\ counters_in_range

\* the third consensus after ExpectCandidate(c) is about to send it again
C22_Witness ==
    /\ Running
    /\ \E c \in DOMAIN throttle :
          /\ throttle[c] = 3
          /\ c \in offered_next
          /\ Cardinality(eligible_rows(Member, {})) > 1

\* the candidates of the rows of m
row_candidates(m) == {Row(m, n).node : n \in RowNames(m)}

\* the node selected when the nodes of tracked are the keys of already_relocating
best_outside(tracked) ==
    get_best_relocating_node_and_target(Member, [c \in tracked |-> 1])

\* C23: get_best_relocating_node_and_target(already_relocating) returns the
\* maximum, under (is RelocatingAgeIncrease, is RelocatingHop, is
\* RelocatingBackOnline, age, name), of the rows that are relocating, are not
\* elders and are not keys of already_relocating, and None iff there is none.
C23_SelectionOrdering ==
    Running =>
        \A tracked \in SUBSET row_candidates(Member) :
            LET eligible == eligible_rows(Member, tracked)
                best == best_outside(tracked)
            IN  /\ best = None <=> eligible = {}
                /\ best # None =>
                      /\ best[1].name \in eligible
                      /\ Row(Member, best[1].name).node = best[1]
                      /\ \A q \in eligible \ {best[1].name} :
                            selection_above(Row(Member, best[1].name), Row(Member, q))

\* a younger RelocatingAgeIncrease row is selected over an older RelocatingHop
\* row, and the RelocatingHop row once the first is tracked
C23_Witness ==
    /\ Running
    /\ \E c \in row_candidates(Member), d \in row_candidates(Member) :
          /\ Row(Member, c.name).state = StateRelocatingAgeIncrease
          /\ Row(Member, d.name).state = StateRelocatingHop
          /\ c.age < d.age
          /\ best_outside({}) = Some(c)
          /\ best_outside({c}) = Some(d)
          /\ start_relocate_src.already_relocating # <<>>

new_section_info(info) == ParsecConsensus(ParsecVote("NewSectionInfo", info))

merge_active(m) == m.start_merge_split_and_change_elders.sub_routine_process_merge_active

\* the consensus of NewSectionInfo(info) ends the merge
completes_merge(info) ==
    /\ handled(new_section_info(info))
    /\ after(new_section_info(info)).action.our_events
        = <<ActionTriggered("CompleteMerge", None), Scheduled("TimeoutCheckElder")>>
    /\ ~merge_active(after(new_section_info(info)))

\* the consensus of NewSectionInfo(info) leaves the merge as it is
keeps_merge(info) ==
    /\ ActionTriggered("CompleteMerge", None)
        \notin Range(after(new_section_info(info)).action.our_events)
    /\ merge_active(after(new_section_info(info)))

\* C24: ProcessMerge completes exactly on consensus of the NewSectionInfo it
\* voted for: CompleteMerge is journaled, the flow becomes inactive and
\* TimeoutCheckElder is scheduled; a different NewSectionInfo does not complete it.
C24_MergeCompletion ==
    Running /\ merge_active(Member) =>
        \A info \in SectionInfos :
            IF info \in merge_voted THEN completes_merge(info) ELSE keeps_merge(info)

check_elder_event == consensus_of("CheckElder", None)

split_state(m) == m.start_merge_split_and_change_elders.sub_routine_process_split

\* the two sections a split of our section makes
split_votes ==
    <<ParsecVote("NewSectionInfo", SectionInfo(action.our_section.section + 1, 0)),
      ParsecVote("NewSectionInfo", SectionInfo(action.our_section.section + 2, 0))>>

\* a consensus of CheckElder that starts ProcessSplit votes for the two sections
split_entry ==
    (/\ ~split_state(Member).is_active
     /\ try_event(check_elder_event).m.abort = "none"
     /\ split_state(after(check_elder_event)).is_active)
    => /\ votes_cast(after(check_elder_event).action.our_events) = split_votes
       /\ split_state(after(check_elder_event)).wait_votes = split_votes

\* the first of the two votes only leaves the wait list
split_first(vote) ==
    /\ handled(ParsecConsensus(vote))
    /\ after(ParsecConsensus(vote))
        = [remove_processed_state(Member) EXCEPT
            !.start_merge_split_and_change_elders.sub_routine_process_split.wait_votes
                = SelectSeq(@, LAMBDA w : w # vote)]

\* the second of the two votes ends the split
split_second(vote) ==
    /\ handled(ParsecConsensus(vote))
    /\ after(ParsecConsensus(vote)).action.our_events
        = <<ActionTriggered("CompleteSplit", None), Scheduled("TimeoutCheckElder")>>
    /\ ~split_state(after(ParsecConsensus(vote))).is_active

\* C25: ProcessSplit votes NewSectionInfo(s+1, 0) and NewSectionInfo(s+2, 0) on
\* entry; the consensus of the first of them, whichever it is, has no effect, and
\* the consensus of the other journals CompleteSplit then
\* Scheduled(TimeoutCheckElder) and makes ProcessSplit inactive.
C25_SplitCompletion ==
    Running =>
        /\ split_entry
        /\ split_state(Member).is_active =>
            LET wait_votes == split_state(Member).wait_votes
            IN  /\ Range(wait_votes) \subseteq Range(split_votes)
                /\ Len(wait_votes) \in {1, 2}
                /\ \A vote \in Range(wait_votes) :
                      IF Len(wait_votes) = 2 THEN split_first(vote)
                      ELSE split_second(vote)

\* the split has just ended on the second of its votes
C25_Witness ==
    /\ Running
    /\ ~split_state(Member).is_active
    /\ action.our_events
        = <<ActionTriggered("CompleteSplit", None), Scheduled("TimeoutCheckElder")>>

\* ------------------------------------------------------------------
\* Relocation of an elder: it earns its relocation, is replaced, then is offered
\* ------------------------------------------------------------------
NextDemote ==
    \/ TestSetWorkUnitEnoughToRelocate
    \/ ConsensusWorkUnitIncrement
    \/ ConsensusCheckRelocate
    \/ ConsensusCheckElder
    \/ ConsensusAddElderNode
    \/ ConsensusRemoveElderNode
    \/ ConsensusNewSectionInfo

SpecDemote == InitOldElders /\ [][NextDemote]_vars

\* the step sent ExpectCandidate only for rows that were relocating non-elders
\* outside already_relocating when it began
offers_non_elders_only ==
    \A c \in expect_candidates_sent(action'.our_events) :
        /\ relocating_non_elder(Member, c)
        /\ c \notin DOMAIN start_relocate_src.already_relocating

\* the step cleared an is_elder flag only by completing an elder change
demotes_by_elder_change_only ==
    \A n \in RowNames(Member) :
        (/\ Row(Member, n).is_elder
         /\ n \in DOMAIN action'.our_current_nodes
         /\ ~action'.our_current_nodes[n].is_elder)
        => /\ start_merge_split_and_change_elders.sub_routine_process_elder_change.is_active
           /\ ~start_merge_split_and_change_elders'.sub_routine_process_elder_change.is_active
           /\ NodeChange("Elder", [node |-> Row(Member, n).node, value |-> FALSE])
                \in Range(action'.our_events)

\* C26: StartRelocateSrc sends ExpectCandidate(c) only for a row that is then
\* relocating, not an elder and not a key of already_relocating; the is_elder
\* flag of a relocating elder is cleared only by a completed elder change, so it
\* is sent only on a CheckRelocate after that.
C26_NoElderOffered ==
    [][abort' = "none" => offers_non_elders_only /\ demotes_by_elder_change_only]_vars

\* a node that was a relocating elder is offered after its demotion
C26_Witness ==
    /\ Running
    /\ Rpc("ExpectCandidate", NODE_ELDER_130) \in Range(action.our_events)
    /\ ~Row(Member, NODE_ELDER_130.name).is_elder
    /\ action.our_section.version > 0

work_unit_increment == consensus_of("WorkUnitIncrement", None)

age_increase_rows(m) ==
    {n \in RowNames(m) : Row(m, n).state = StateRelocatingAgeIncrease}

\* the rows the next consensus of WorkUnitIncrement makes RelocatingAgeIncrease
selected_next ==
    age_increase_rows(after(work_unit_increment)) \ age_increase_rows(Member)

\* C27: at most one row is RelocatingAgeIncrease; a consensus of
\* WorkUnitIncrement makes at most one row RelocatingAgeIncrease, only when no
\* row is already, and only a row that is Online with work_units_done >= age.
C27_SingleAgeIncrease ==
    Running =>
        /\ Cardinality(age_increase_rows(Member)) <= 1
        /\ handled(work_unit_increment)
        /\ Cardinality(selected_next) <= 1
        /\ selected_next # {} => age_increase_rows(Member) = {}
        /\ \A n \in selected_next :
              /\ Row(Member, n).state = StateOnline
              /\ Row(Member, n).work_units_done >= Row(Member, n).node.age
        /\ \A n \in RowNames(Member) \ selected_next :
              n \in RowNames(after(work_unit_increment))
              /\ Row(after(work_unit_increment), n) = Row(Member, n)

\* a row has just been made RelocatingAgeIncrease while a row in another state,
\* earlier in the table, had done enough work as well
C27_Witness ==
    /\ Running
    /\ \E n \in age_increase_rows(Member), q \in RowNames(Member) :
          /\ NodeChange("State", [node |-> Row(Member, n).node,
                                   state |-> StateRelocatingAgeIncrease])
                \in Range(action.our_events)
          /\ q < n
          /\ Row(Member, q).state = StateRelocatingBackOnline
          /\ Row(Member, q).work_units_done >= Row(Member, q).node.age

elder_change_state(m) ==
    m.start_merge_split_and_change_elders.sub_routine_process_elder_change

\* what the consensus of CheckElder did, read from the member it leaves
check_elder_outcome(outcome) ==
    LET m == after(check_elder_event)
        journal == m.action.our_events
    IN  CASE outcome = "merge" ->
                /\ merge_active(m)
                /\ journal # <<>>
                /\ Head(journal) = Rpc("Merge", action.our_section)
                /\ elder_change_state(m) = elder_change_state(Member)
                /\ split_state(m) = split_state(Member)
          [] outcome = "elder_change" ->
                /\ elder_change_state(m).is_active
                /\ elder_change_state(m).change_elder = check_elder(Member)
                /\ journal # <<>>
                /\ votes_cast(journal) = elder_change_state(m).wait_votes
                /\ Len(votes_cast(journal)) = Len(journal)
                /\ ParsecVote("NewSectionInfo",
                              SectionInfo(action.our_section.section,
                                          action.our_section.version + 1))
                    \in Range(votes_cast(journal))
                /\ merge_active(m) = merge_active(Member)
                /\ split_state(m) = split_state(Member)
          [] outcome = "split" ->
                /\ split_state(m).is_active
                /\ split_state(m).wait_votes = split_votes
                /\ journal = [i \in 1..2 |-> ParsecConsensus(split_votes[i])]
                /\ merge_active(m) = merge_active(Member)
                /\ elder_change_state(m) = elder_change_state(Member)
          [] outcome = "timeout" ->
                /\ journal = <<Scheduled("TimeoutCheckElder")>>
                /\ m.start_merge_split_and_change_elders
                    = start_merge_split_and_change_elders

\* the outcome the priorities of check_merge and check_elder select
check_elder_choice ==
    IF has_merge_infos(Member) \/ merge_needed(Member) THEN "merge"
    ELSE IF check_elder(Member) # None THEN "elder_change"
    ELSE IF split_needed(Member) THEN "split"
    ELSE "timeout"

\* C28: on every consensus of CheckElder exactly one outcome happens, by
\* priority: ProcessMerge is entered if merge info is stored or a merge is
\* needed; else ProcessElderChange if check_elder() returns Some; else
\* ProcessSplit if a split is needed; else Scheduled(TimeoutCheckElder).
C28_CheckElderOutcome ==
    Running =>
        /\ handled(check_elder_event)
        /\ after(check_elder_event).action.our_current_nodes = action.our_current_nodes
        /\ \A outcome \in {"merge", "elder_change", "split", "timeout"} :
              check_elder_outcome(outcome) <=> outcome = check_elder_choice

\* a merge is pending while the elders would change: the merge is entered
C28_Witness ==
    /\ Running
    /\ has_merge_infos(Member)
    /\ check_elder(Member) # None
    /\ ~merge_active(Member)
    /\ check_elder_outcome("merge")

neighbour_merge(sec) == consensus_of("NeighbourMerge", sec)

is_sibling(sec) == Abs(action.our_section.section - sec.section) = 1

merged_vote(sec) ==
    ParsecVote("NewSectionInfo",
               SectionInfo(action.our_section.section + sec.section + 1, 0))

\* C29: a consensus of NeighbourMerge(sec) always journals MergeInfoStored(sec);
\* it votes NewSectionInfo(our_tag + sec_tag + 1, 0) as well iff ProcessMerge is
\* active and |our_tag - sec_tag| = 1, and then the stored info is consumed;
\* otherwise the info stays stored and no vote is cast.
C29_NeighbourMerge ==
    Running =>
        \A sec \in {OTHER_SECTION_INFO, REMOTE_OTHER_SECTION_INFO} :
            LET m == after(neighbour_merge(sec))
            IN  /\ handled(neighbour_merge(sec))
                /\ IF merge_active(Member) /\ is_sibling(sec)
                   THEN /\ m.action.our_events
                            = <<ActionTriggered("MergeInfoStored", sec),
                                ParsecConsensus(merged_vote(sec))>>
                        /\ ~has_merge_infos(m)
                   ELSE /\ m.action.our_events
                            = <<ActionTriggered("MergeInfoStored", sec)>>
                        /\ m.action.merge_infos = Some(sec)

\* the active ProcessMerge has just merged with the sibling it was told of
C29_Witness ==
    /\ Running
    /\ merge_active(Member)
    /\ ~has_merge_infos(Member)
    /\ action.our_events
        = <<ActionTriggered("MergeInfoStored", OTHER_SECTION_INFO),
            ParsecConsensus(ParsecVote("NewSectionInfo",
                                       SectionInfo(OUR_SECTION + OTHER_SECTION_1 + 1, 0)))>>

refuse_candidate(c) == consensus_of("RefuseCandidate", c)

\* the member after RefuseCandidate(c), then after the CheckRelocate that follows
refused(c) == after(refuse_candidate(c))

checked_after_refusal(c) ==
    MemberState_try_next(remove_processed_state(refused(c)), check_relocate).m

\* c is the best relocating non-elder of m outside already_relocating
best_untracked(m, c) ==
    /\ c.name \in eligible_rows(m, DOMAIN m.start_relocate_src.already_relocating)
    /\ Row(m, c.name).node = c
    /\ \A n \in eligible_rows(m, DOMAIN m.start_relocate_src.already_relocating)
                \ {c.name} :
          selection_above(Row(m, c.name), Row(m, n))

\* C30: a consensus of RefuseCandidate(c) for a relocating node c that is a key
\* of already_relocating journals nothing and removes c from already_relocating,
\* so that the very next consensus of CheckRelocate sends ExpectCandidate(c)
\* again when c is the best relocating non-elder outside already_relocating.
C30_RefusalResend ==
    Running =>
        \A c \in DOMAIN start_relocate_src.already_relocating :
            is_our_relocating_node(Member, c) =>
                /\ handled(refuse_candidate(c))
                /\ refused(c)
                    = [remove_processed_state(Member) EXCEPT
                        !.start_relocate_src.already_relocating = Remove(@, c)]
                /\ c \notin DOMAIN refused(c).start_relocate_src.already_relocating
                /\ best_untracked(refused(c), c) =>
                      /\ checked_after_refusal(c).abort = "none"
                      /\ c \in expect_candidates_sent(
                                    checked_after_refusal(c).action.our_events)

\* c was offered one check ago and would not be offered by the next one; once
\* refused, it is
C30_Witness ==
    /\ Running
    /\ \E c \in DOMAIN start_relocate_src.already_relocating :
          /\ start_relocate_src.already_relocating[c] = 1
          /\ is_our_relocating_node(Member, c)
          /\ c \notin offered_next
          /\ c \in expect_candidates_sent(checked_after_refusal(c).action.our_events)

\* ------------------------------------------------------------------
\* The lifecycle of a row
\* ------------------------------------------------------------------
\* the state old may be followed by the state new in the same row
lifecycle_allows(old, new) ==
    /\ new.tag \in {"Offline", "RelocatingAgeIncrease"} => old = StateOnline
    /\ new = StateRelocatingBackOnline => old = StateOffline
    /\ new.tag = "Relocated" => is_relocating(old)

\* the rows whose state the step changed, and the rows the source flow removed
lifecycle_step ==
    /\ \A n \in RowNames(Member) \cap DOMAIN action'.our_current_nodes :
          action'.our_current_nodes[n].state # Row(Member, n).state
          => lifecycle_allows(Row(Member, n).state, action'.our_current_nodes[n].state)
    /\ \A n \in RowNames(Member) \ DOMAIN action'.our_current_nodes :
          (\E e \in Range(action'.our_events) :
                e.kind = "Rpc" /\ e.payload.kind = "RelocatedInfo")
          => Row(Member, n).state.tag = "Relocated"

\* C31: a row enters Offline or RelocatingAgeIncrease only from Online,
\* RelocatingBackOnline only from Offline, Relocated(info) only from a
\* Relocating* state, and is removed by the source flow only when Relocated(info).
C31_Lifecycle == [][abort' = "none" => lifecycle_step]_vars

\* ------------------------------------------------------------------
\* A joining node and the member that admits it, their RPCs relayed in order
\* ------------------------------------------------------------------
MaxProofSeed == 3
MaxResends == 1

\* the identity the joining node leaves and the one it takes
JoiningIds == {[old |-> CANDIDATE_1_OLD, new |-> CANDIDATE_1]}

\* the action of a node that joins the section of INNER_ACTION_OLD_ELDERS
joining_action(new_public_id) ==
    [INNER_ACTION_WITH_DST_SECTION_200 EXCEPT
        !.our_attributes = new_public_id,
        !.section_members =
            [info \in {OUR_INITIAL_SECTION_INFO} |->
                <<NODE_ELDER_130, NODE_ELDER_131, NODE_ELDER_132>>]]

InitExchange ==
    /\ action = INNER_ACTION_OLD_ELDERS
    /\ InitSubRoutines
    /\ elder_timer = None
    /\ NoReplica
    /\ NoProofSource
    /\ \E id \in JoiningIds :
          /\ joining = Some([JoiningState_initial EXCEPT
                                !.action = joining_action(id.new)])
          /\ relay = Some([member |-> OUR_NODE.name, old |-> id.old,
                            to_member |-> <<>>, to_joining |-> <<>>,
                            votes |-> <<>>, computing |-> 0, resends |-> 0])
    /\ joining_result = "none"

Relayed == relay # None /\ Running /\ Joined

\* the section agrees to take the node, then to ask it for its proof
ExchangeConsensusExpectCandidate ==
    /\ Relayed
    /\ ticket[relay[1].old] = None
    /\ Step(consensus_of("ExpectCandidate", relay[1].old))

ExchangeConsensusCheckResourceProof ==
    /\ Relayed
    /\ ticket[relay[1].old] # None
    /\ ~has_candidate(Member)
    /\ Step(consensus_of("CheckResourceProof", None))

\* the node is handed the ticket of the RelocateResponse and starts to join
ExchangeStart ==
    /\ Relayed
    /\ ~JoiningStarted
    /\ ticket[relay[1].old] # None
    /\ joining' = Some(JoiningState_start(remove_processed_state(joining[1]),
                                          ticket[relay[1].old][1]))
    /\ joining_result' = "none"
    /\ UNCHANGED <<member_vars, proof_vars, replay_vars, relay_vars>>

\* the member answers the ConnectionInfoRequest of the node
ExchangeConnectionInfoResponse ==
    /\ Relayed
    /\ JoiningStarted
    /\ relay[1].member \notin joining[1].action.connected
    /\ JoiningStep(Rpc("ConnectionInfoResponse",
                       [source |-> relay[1].member,
                        destination |-> our_name(joining[1]),
                        connection_info |-> relay[1].member]))

\* the proof the member asked for is made, with a number of parts
ExchangeSetResourceProof ==
    /\ Relayed
    /\ JoiningStarted
    /\ relay[1].member \notin DOMAIN joining[1].action.resource_proofs_for_elder
    /\ \E seed \in 1..MaxProofSeed :
          JoiningStep(TestEvent("SetResourceProof",
                                [name |-> relay[1].member, proof |-> seed]))

ExchangeResourceProofForElderReady ==
    /\ Relayed
    /\ JoiningStarted
    /\ relay[1].computing > 0
    /\ relay[1].member \in DOMAIN joining[1].action.resource_proofs_for_elder
    /\ JoiningStep(LocalEvent("ResourceProofForElderReady", relay[1].member))

\* the timer of the node fires and it sends its CandidateInfo once more
ExchangeTimeoutResendInfo ==
    /\ Relayed
    /\ JoiningStarted
    /\ relay[1].resends < MaxResends
    /\ JoiningStep(LocalEvent("JoiningTimeoutResendInfo", None))

\* the oldest RPC in flight reaches the one it was sent to
ExchangeDeliverToMember ==
    /\ Relayed
    /\ relay[1].to_member # <<>>
    /\ Step(Head(relay[1].to_member))

ExchangeDeliverToJoining ==
    /\ Relayed
    /\ JoiningStarted
    /\ relay[1].to_joining # <<>>
    /\ JoiningStep(Head(relay[1].to_joining))

\* the vote of the member for Online reaches consensus
ExchangeConsensusOnline ==
    /\ Relayed
    /\ has_candidate(Member)
    /\ \E i \in 1..Len(relay[1].votes) :
          /\ relay[1].votes[i].kind = "Online"
          /\ Step(ParsecConsensus(relay[1].votes[i]))

NextExchange ==
    \/ ExchangeConsensusExpectCandidate
    \/ ExchangeConsensusCheckResourceProof
    \/ ExchangeStart
    \/ ExchangeConnectionInfoResponse
    \/ ExchangeSetResourceProof
    \/ ExchangeResourceProofForElderReady
    \/ ExchangeTimeoutResendInfo
    \/ ExchangeDeliverToMember
    \/ ExchangeDeliverToJoining
    \/ ExchangeConsensusOnline

SpecExchange == InitExchange /\ [][NextExchange]_vars

\* the relay is reliable: an RPC in flight is delivered in the end, and a proof
\* the node was asked to compute is reported ready in the end
SpecExchangeLive ==
    /\ SpecExchange
    /\ WF_vars(ExchangeDeliverToMember)
    /\ WF_vars(ExchangeDeliverToJoining)
    /\ WF_vars(ExchangeResourceProofForElderReady)

relayed_online_votes ==
    IF relay = None THEN 0
    ELSE Cardinality({i \in 1..Len(relay[1].votes) : relay[1].votes[i].kind = "Online"})

\* the number of parts the joining node has left for the member; None before
\* the proof is made
parts_left ==
    IF /\ relay # None
       /\ joining # None
       /\ relay[1].member \in DOMAIN joining[1].action.resource_proofs_for_elder
    THEN Some(joining[1].action.resource_proofs_for_elder[relay[1].member])
    ELSE None

\* the member took the CandidateInfo of the node and the proof for it is made
exchange_ready ==
    /\ Relayed
    /\ has_candidate(Member)
    /\ Member.start_resource_proof.candidate_info # None
    /\ parts_left # None

\* the step of the joining node journals a ResourceProofResponse
responds ==
    \E i \in 1..Len(joining'[1].action.our_events) :
        /\ joining'[1].action.our_events[i].kind = "Rpc"
        /\ joining'[1].action.our_events[i].payload.kind = "ResourceProofResponse"

MaxTimers == 2

InitTimer ==
    /\ action \in {INNER_ACTION_YOUNG_ELDERS, INNER_ACTION_OLD_ELDERS}
    /\ InitSubRoutines
    /\ relay = None
    /\ elder_timer = Some([scheduled |-> 0, voted |-> 0, started |-> FALSE])
    /\ NoReplica
    /\ NoProofSource
    /\ NotJoining

Followed == elder_timer # None /\ Running /\ elder_timer[1].scheduled <= MaxTimers

\* a timer fires only once it was scheduled
TimerTimeoutCheckElder ==
    /\ Followed
    /\ elder_timer[1].scheduled > 0
    /\ Step(LocalEvent("TimeoutCheckElder", None))

\* CheckElder is agreed once we voted for it, or on the votes of the others
TimerConsensusCheckElder ==
    /\ Followed
    /\ elder_timer[1].voted > 0 \/ elder_timer[1].scheduled < MaxTimers
    /\ Consensus("CheckElder", None)

TimerConsensusAddElderNode == Followed /\ ConsensusAddElderNode

TimerConsensusRemoveElderNode == Followed /\ ConsensusRemoveElderNode

TimerConsensusNewSectionInfo == Followed /\ ConsensusNewSectionInfo

TimerConsensusNeighbourMerge == Followed /\ ConsensusNeighbourMerge

TimerConsensusOffline == Followed /\ ConsensusOffline

TimerTestSetChurnNeeded == Followed /\ TestSetChurnNeeded

NextTimer ==
    \/ TimerTimeoutCheckElder
    \/ TimerConsensusCheckElder
    \/ TimerConsensusAddElderNode
    \/ TimerConsensusRemoveElderNode
    \/ TimerConsensusNewSectionInfo
    \/ TimerConsensusNeighbourMerge
    \/ TimerConsensusOffline
    \/ TimerTestSetChurnNeeded

SpecTimer == InitTimer /\ [][NextTimer]_vars

sub_flow_active(routine) ==
    \/ routine.sub_routine_process_merge_active
    \/ routine.sub_routine_process_split.is_active
    \/ routine.sub_routine_process_elder_change.is_active

timer_scheduled(events) == Scheduled("TimeoutCheckElder") \in Range(events)

\* a consensus of CheckElder leaves a sub-flow active or schedules the timer
check_elder_keeps_loop ==
    Running =>
        LET m == after(check_elder_event)
        IN  m.abort = "none" =>
                \/ sub_flow_active(m.start_merge_split_and_change_elders)
                \/ timer_scheduled(m.action.our_events)

\* a step in which one of the sub-flows stops being active schedules the timer
exit_schedules ==
    LET old == start_merge_split_and_change_elders
        new == start_merge_split_and_change_elders'
    IN  (\/ old.sub_routine_process_merge_active
             /\ ~new.sub_routine_process_merge_active
         \/ old.sub_routine_process_split.is_active
             /\ ~new.sub_routine_process_split.is_active
         \/ old.sub_routine_process_elder_change.is_active
             /\ ~new.sub_routine_process_elder_change.is_active)
        => timer_scheduled(action'.our_events)

loop_started == elder_timer # None /\ elder_timer[1].started /\ abort = "none"

\* C33 as stated: after the first consensus of CheckElder, at any time a
\* sub-flow is active or a TimeoutCheckElder is scheduled and not yet fired.
C33_TimerLoop ==
    /\ []check_elder_keeps_loop
    /\ [][abort' = "none" => exit_schedules]_vars
    /\ [](loop_started =>
            \/ sub_flow_active(start_merge_split_and_change_elders)
            \/ elder_timer[1].scheduled > 0)

\* C33: every consensus of CheckElder leaves one of ProcessMerge,
\* ProcessElderChange, ProcessSplit active or journals
\* Scheduled(TimeoutCheckElder), and every exit of one of them journals it; so
\* after the first consensus of CheckElder, at any time a sub-flow is active,
\* or a TimeoutCheckElder is scheduled and not yet fired, or it fired and the
\* CheckElder vote it cast has not reached consensus yet.
C33_TimerLoopOrVoted ==
    /\ []check_elder_keeps_loop
    /\ [][abort' = "none" => exit_schedules]_vars
    /\ [](loop_started =>
            \/ sub_flow_active(start_merge_split_and_change_elders)
            \/ elder_timer[1].scheduled > 0
            \/ elder_timer[1].voted > 0)

\* the timer fired and its vote is awaited, with no sub-flow active
C33_Witness ==
    /\ loop_started
    /\ ~sub_flow_active(start_merge_split_and_change_elders)
    /\ elder_timer[1].scheduled = 0
    /\ elder_timer[1].voted = 1
    /\ ActionTriggered("CompleteMerge", None) \notin Range(action.our_events)

\* ------------------------------------------------------------------
\* Rpc::CandidateInfo
\* ------------------------------------------------------------------
\* the CandidateInfo a member may be sent: of either candidate, naming a row or
\* a name that is no row, valid or not
CandidateInfos ==
    {CandidateInfo(old, new, our_name(Member), waiting, valid) :
        old \in Candidates, new \in {CANDIDATE_1, CANDIDATE_2},
        waiting \in RowNames(Member) \cup {CANDIDATE_1_OLD.name},
        valid \in BOOLEAN}

\* there is a current candidate with the old id of the info, the info is valid
\* and the row it names is in state WaitingCandidateInfo
accepts(info) ==
    /\ Member.start_resource_proof.candidate # None
    /\ Member.start_resource_proof.candidate[1].candidate = info.old_public_id
    /\ info.valid
    /\ info.waiting_candidate_name \in DOMAIN action.our_current_nodes
    /\ action.our_current_nodes[info.waiting_candidate_name].state.tag
        = "WaitingCandidateInfo"

proof_requested(m, info) ==
    /\ m.abort = "none"
    /\ m.action.our_events
        = <<Rpc("ResourceProof",
                [candidate |-> info.new_public_id, source |-> our_name(Member),
                 proof |-> our_name(Member)])>>

timeout_accept == LocalEvent("TimeoutAccept", None)

purge_votes(events) == SelectSeq(votes_cast(events), LAMBDA vote : vote.kind = "PurgeCandidate")

\* C36: a LocalEvent::TimeoutAccept that fires when StartResourceProof has no
\* current candidate, as it has once the admission the timer was scheduled for
\* finished by Online or PurgeCandidate, is processed without aborting and
\* casts no PurgeCandidate vote.
C36_LateTimeoutAccept ==
    (Running /\ ~has_candidate(Member)) =>
        /\ after(timeout_accept).abort = "none"
        /\ purge_votes(after(timeout_accept).action.our_events) = <<>>

\* ------------------------------------------------------------------
\* RefuseCandidate for a relocating node that is not tracked
\* ------------------------------------------------------------------
\* C37: a consensus of RefuseCandidate(c) for a row c in a Relocating state is
\* processed without aborting whether or not c is a key of already_relocating;
\* when c is not a key it has no effect.
C37_RefusalOfUntracked ==
    Running =>
        \A c \in RelocatingNodes :
            /\ handled(refuse_candidate(c))
            /\ c \notin DOMAIN start_relocate_src.already_relocating
                => refused(c) = remove_processed_state(Member)

\* ------------------------------------------------------------------
\* An elder change with relocations interleaved
\* ------------------------------------------------------------------
\* the seed of InitSrc in which CANDIDATE_1 is an adult, older than an elder
InitChange ==
    /\ InitRoutines
    /\ NoReplica
    /\ NoProofSource
    /\ NotJoining
    /\ action = extend_current_nodes_with(INNER_ACTION_YOUNG_ELDERS,
                                          NodeState_default(OUR_NODE), <<CANDIDATE_1>>)

\* the destination answers for a node it was sent ExpectCandidate for
ChangeConsensusRelocateResponse ==
    \E node \in RelocatingNodes \cap DOMAIN start_relocate_src.already_relocating :
        Running /\ Consensus("RelocateResponse",
                             get_relocated_info(node, DST_SECTION_INFO_200))

\* the adults are the ones given the work that relocates them
ChangeTestSetWorkUnitEnoughToRelocate ==
    \E node \in RowNodes \cap {CANDIDATE_1, YOUNG_ADULT_205} :
        Running /\ Step(TestEvent("SetWorkUnitEnoughToRelocate", node))

NextChange ==
    \/ ConsensusCheckElder
    \/ ConsensusAddElderNode
    \/ ConsensusRemoveElderNode
    \/ ConsensusNewSectionInfo
    \/ ChangeTestSetWorkUnitEnoughToRelocate
    \/ ConsensusWorkUnitIncrement
    \/ ConsensusCheckRelocate
    \/ ChangeConsensusRelocateResponse
    \/ ConsensusRelocatedInfo

SpecChange == InitChange /\ [][NextChange]_vars

\* the names of the nodes of the pending ChangeElder
change_names(m) ==
    IF elder_change_state(m).change_elder = None THEN {}
    ELSE {change.node.name : change \in Range(elder_change_state(m).change_elder[1].changes)}

\* C38: every node named in the pending ChangeElder of an active
\* ProcessElderChange is a row of the node table, whatever relocations are
\* interleaved since the CheckElder consensus, and the consensus of the last
\* awaited vote does not abort.
C38_ChangeElderRows ==
    (Running /\ elder_change_state(Member).is_active) =>
        /\ change_names(Member) \subseteq RowNames(Member)
        /\ Len(elder_change_state(Member).wait_votes) = 1 =>
              after(ParsecConsensus(elder_change_state(Member).wait_votes[1])).abort
              = "none"

\* ------------------------------------------------------------------
\* The sub-flows of StartMergeSplitAndChangeElders, one at a time
\* ------------------------------------------------------------------
sub_flows_active(routine) ==
    {flow \in {"ProcessMerge", "ProcessSplit", "ProcessElderChange"} :
        CASE flow = "ProcessMerge" -> routine.sub_routine_process_merge_active
          [] flow = "ProcessSplit" -> routine.sub_routine_process_split.is_active
          [] flow = "ProcessElderChange" ->
                routine.sub_routine_process_elder_change.is_active}

\* C35: at most one of ProcessMerge, ProcessSplit and ProcessElderChange is
\* active in every reachable state, and a consensus of CheckElder that arrives
\* while one of them is active activates no other.
C35_OneSubFlow ==
    Running =>
        /\ Cardinality(sub_flows_active(start_merge_split_and_change_elders)) <= 1
        /\ sub_flows_active(start_merge_split_and_change_elders) # {}
            => sub_flows_active(
                    after(check_elder_event).start_merge_split_and_change_elders)
               \subseteq sub_flows_active(start_merge_split_and_change_elders)

\* ------------------------------------------------------------------
\* The row of an admitted candidate
\* ------------------------------------------------------------------
\* a new identity whose age is not the one of the ticket
OLDER_PUBLIC_ID == Attributes(11, 3)

AdmissionIds(old) == NewPublicIds(old) \cup {OLDER_PUBLIC_ID}

online_of(old, new) == consensus_of("Online", [old |-> old, new |-> new])

\* the consensus is for the current candidate, whose ticket is the one of the
\* waiting row
admission_of(old) ==
    /\ has_candidate(Member)
    /\ candidate_of(Member).candidate = old
    /\ ticket[old] # None

\* C39: a row that becomes Online through admission has the expected_age of
\* the ticket issued for it, is no elder, has work_units_done = 0 and takes the
\* place of the waiting row of that ticket, the table keeping its size.
C39_AdmittedRow ==
    Running =>
        \A old \in Candidates : \A new \in AdmissionIds(old) :
            LET m == after(online_of(old, new))
                waiting == ticket[old][1].target_interval_centre
            IN  (admission_of(old) /\ m.abort = "none") =>
                    /\ new.name \in RowNames(m)
                    /\ Row(m, new.name).state = StateOnline
                    /\ Row(m, new.name).node.age = ticket[old][1].expected_age
                    /\ ~Row(m, new.name).is_elder
                    /\ Row(m, new.name).work_units_done = 0
                    /\ RowNames(m) = (RowNames(Member) \ {waiting}) \cup {new.name}
                    /\ Cardinality(RowNames(m)) = Cardinality(RowNames(Member))

\* ------------------------------------------------------------------
\* Every consensus is Handled
\* ------------------------------------------------------------------
\* the votes of each payload: a node or candidate, two identities, a section
\* info, a ticket, nothing
VotedNodes == RowNodes \cup Candidates

node_votes ==
    {ParsecVote(kind, node) :
        kind \in {"ExpectCandidate", "PurgeCandidate", "RefuseCandidate",
                  "AddElderNode", "RemoveElderNode", "Offline", "BackOnline"},
        node \in VotedNodes}

online_votes_of ==
    {ParsecVote("Online", [old |-> old, new |-> new]) :
        old \in Candidates, new \in {CANDIDATE_1, CANDIDATE_2}}

info_votes ==
    {ParsecVote(kind, info) :
        kind \in {"NewSectionInfo", "NeighbourMerge"}, info \in SectionInfos}

ticket_votes ==
    {ParsecVote(kind, get_relocated_info(node, DST_SECTION_INFO_200)) :
        kind \in {"RelocateResponse", "RelocatedInfo"}, node \in VotedNodes}

plain_votes ==
    {ParsecVote(kind, None) :
        kind \in {"CheckResourceProof", "WorkUnitIncrement", "CheckRelocate",
                  "CheckElder"}}

\* try_next comes back from the consensus of the vote, with Handled
returns_handled(vote) == handled(ParsecConsensus(vote))

\* C40: MemberState::try_next returns Handled for every ParsecConsensus event,
\* of every ParsecVote variant and payload, in every reachable state.
C40_ConsensusHandled ==
    Running =>
        /\ \A vote \in node_votes : returns_handled(vote)
        /\ \A vote \in online_votes_of : returns_handled(vote)
        /\ \A vote \in info_votes : returns_handled(vote)
        /\ \A vote \in ticket_votes : returns_handled(vote)
        /\ \A vote \in plain_votes : returns_handled(vote)

====
